---- MODULE Spec2Model ----
(***************************************************************************)
(* Model of the mystery-panel bot (src/main.py): the zero-width payload    *)
(* codec, the three button handlers of MysterySignupView, the commands     *)
(* create_mystery_panel and register_mystery_history, and the rendering    *)
(* of the panel (get_font, draw_multiline, make_panel).                    *)
(*                                                                         *)
(* Text is a sequence of Unicode code points; bytes are sequences of       *)
(* numbers in 0..255.  Python's None is the value None below.              *)
(***************************************************************************)
EXTENDS Integers, Sequences, FiniteSets, TLC

\* ------------------------------------------------------------------ bounds
MaxRoleId == 11
MaxUser == 2
MaxGuild == 2

RoleIds == 0..MaxRoleId
Users == 1..MaxUser
Guilds == 1..MaxGuild

\* Python's None: no text is equal to it, since code points are >= 0.
None == <<-1>>

\* an exception on its way out of the call that raised it
Raised == <<-2>>

\* --------------------------------------------------------- text constants
\* "participant="
PARTICIPANT_EQ == <<112, 97, 114, 116, 105, 99, 105, 112, 97, 110, 116, 61>>
\* "spectator="
SPECTATOR_EQ == <<115, 112, 101, 99, 116, 97, 116, 111, 114, 61>>
\* "|"
BAR == <<124>>

_ZW0 == 8203
_ZW1 == 8204
_ZWPREFIX == 8205

Pow2(n) == IF n = 0 THEN 1 ELSE IF n = 1 THEN 2 ELSE IF n = 2 THEN 4
           ELSE IF n = 3 THEN 8 ELSE IF n = 4 THEN 16 ELSE IF n = 5 THEN 32
           ELSE IF n = 6 THEN 64 ELSE 128

\* ------------------------------------------------------------ str(int)
RECURSIVE DigitsOf(_)
DigitsOf(n) == IF n < 10 THEN <<48 + n>> ELSE DigitsOf(n \div 10) \o <<48 + (n % 10)>>

\* f"{n}" for an int n
IntToStr(n) == IF n < 0 THEN <<45>> \o DigitsOf(0 - n) ELSE DigitsOf(n)

\* f"participant={pr_id}|spectator={sp_id}"
PayloadText(pr_id, sp_id) ==
    PARTICIPANT_EQ \o IntToStr(pr_id) \o BAR \o SPECTATOR_EQ \o IntToStr(sp_id)

\* ----------------------------------------------------------------- UTF-8
\* s.encode('utf-8') for code points below 0x110000 (surrogates excluded)
Utf8Char(c) ==
    IF c < 128 THEN <<c>>
    ELSE IF c < 2048 THEN <<192 + (c \div 64), 128 + (c % 64)>>
    ELSE IF c < 65536 THEN <<224 + (c \div 4096), 128 + ((c \div 64) % 64), 128 + (c % 64)>>
    ELSE <<240 + (c \div 262144), 128 + ((c \div 4096) % 64),
           128 + ((c \div 64) % 64), 128 + (c % 64)>>

RECURSIVE Utf8Encode(_)
Utf8Encode(s) == IF s = <<>> THEN <<>> ELSE Utf8Char(Head(s)) \o Utf8Encode(Tail(s))

IsCont(b, i) == i <= Len(b) /\ b[i] >= 128 /\ b[i] < 192

\* bytes.decode('utf-8'), strict: Raised stands for UnicodeDecodeError
RECURSIVE Utf8DecodeFrom(_, _, _)
Utf8DecodeFrom(b, i, acc) ==
    IF i > Len(b) THEN acc
    ELSE LET c == b[i] IN
      IF c < 128 THEN Utf8DecodeFrom(b, i + 1, Append(acc, c))
      ELSE IF c >= 194 /\ c < 224 /\ IsCont(b, i + 1)
        THEN Utf8DecodeFrom(b, i + 2, Append(acc, (c - 192) * 64 + (b[i + 1] - 128)))
      ELSE IF c >= 224 /\ c < 240 /\ IsCont(b, i + 1) /\ IsCont(b, i + 2)
        THEN LET v == (c - 224) * 4096 + (b[i + 1] - 128) * 64 + (b[i + 2] - 128) IN
             IF v < 2048 \/ (v >= 55296 /\ v < 57344) THEN Raised
             ELSE Utf8DecodeFrom(b, i + 3, Append(acc, v))
      ELSE IF c >= 240 /\ c < 245 /\ IsCont(b, i + 1) /\ IsCont(b, i + 2) /\ IsCont(b, i + 3)
        THEN LET v == (c - 240) * 262144 + (b[i + 1] - 128) * 4096
                      + (b[i + 2] - 128) * 64 + (b[i + 3] - 128) IN
             IF v < 65536 \/ v >= 1114112 THEN Raised
             ELSE Utf8DecodeFrom(b, i + 4, Append(acc, v))
      ELSE Raised

Utf8Decode(b) == Utf8DecodeFrom(b, 1, <<>>)

\* ---------------------------------------------------------------- base64
\* the standard alphabet: value 0..63 -> ASCII code
B64Char(v) == IF v < 26 THEN 65 + v
              ELSE IF v < 52 THEN 97 + (v - 26)
              ELSE IF v < 62 THEN 48 + (v - 52)
              ELSE IF v = 62 THEN 43 ELSE 47

\* ASCII code -> value 0..63, or 64 for a byte outside the alphabet
B64Value(c) == IF c >= 65 /\ c <= 90 THEN c - 65
               ELSE IF c >= 97 /\ c <= 122 THEN c - 97 + 26
               ELSE IF c >= 48 /\ c <= 57 THEN c - 48 + 52
               ELSE IF c = 43 THEN 62
               ELSE IF c = 47 THEN 63 ELSE 64

B64_PAD == 61

\* base64.b64encode(b)
B64Encode(b) ==
    LET n == Len(b)
        At(i) == IF i <= n THEN b[i] ELSE 0
    IN [k \in 1..(4 * ((n + 2) \div 3)) |->
          LET g == (k - 1) \div 4
              j == (k - 1) % 4
              triple == At(3 * g + 1) * 65536 + At(3 * g + 2) * 256 + At(3 * g + 3)
          IN IF j = 2 /\ 3 * g + 2 > n THEN B64_PAD
             ELSE IF j = 3 /\ 3 * g + 3 > n THEN B64_PAD
             ELSE IF j = 0 THEN B64Char(triple \div 262144)
             ELSE IF j = 1 THEN B64Char((triple \div 4096) % 64)
             ELSE IF j = 2 THEN B64Char((triple \div 64) % 64)
             ELSE B64Char(triple % 64)]

\* base64.b64decode(data) with validate=False (binascii.a2b_base64, non-strict):
\* bytes outside the alphabet are skipped, a complete pad sequence ends the
\* input, leftover characters are an error (Raised stands for binascii.Error).
RECURSIVE B64DecodeFrom(_, _, _, _, _, _)
B64DecodeFrom(d, i, quad_pos, leftchar, pads, out) ==
    IF i > Len(d) THEN (IF quad_pos # 0 THEN Raised ELSE out)
    ELSE IF d[i] = B64_PAD
      THEN IF quad_pos >= 2 /\ quad_pos + pads + 1 >= 4 THEN out
           ELSE B64DecodeFrom(d, i + 1, quad_pos, leftchar,
                              IF quad_pos >= 2 THEN pads + 1 ELSE pads, out)
    ELSE LET v == B64Value(d[i]) IN
      IF v >= 64 THEN B64DecodeFrom(d, i + 1, quad_pos, leftchar, pads, out)
      ELSE IF quad_pos = 0 THEN B64DecodeFrom(d, i + 1, 1, v, 0, out)
      ELSE IF quad_pos = 1
        THEN B64DecodeFrom(d, i + 1, 2, v % 16, 0, Append(out, leftchar * 4 + (v \div 16)))
      ELSE IF quad_pos = 2
        THEN B64DecodeFrom(d, i + 1, 3, v % 4, 0, Append(out, leftchar * 16 + (v \div 4)))
      ELSE B64DecodeFrom(d, i + 1, 0, 0, 0, Append(out, leftchar * 64 + v))

B64Decode(d) == B64DecodeFrom(d, 1, 0, 0, 0, <<>>)

\* ------------------------------------------------- zero-width payload
BytesToBits_Mutant(b) ==
    [i \in 1..(8 * Len(b)) |-> (b[((i - 1) \div 8) + 1] \div Pow2((i - 1) % 8)) % 2]

\* ''.join(f'{b:08b}' for b in b64): the bits of each byte, high bit first
BytesToBits(b) ==
    [i \in 1..(8 * Len(b)) |-> (b[((i - 1) \div 8) + 1] \div Pow2(7 - ((i - 1) % 8))) % 2]

\* bytes(int(bits[i:i+8], 2) for i in range(0, len(bits), 8))
BitsToBytes(bits) ==
    [k \in 1..(Len(bits) \div 8) |->
        bits[8 * k - 7] * 128 + bits[8 * k - 6] * 64 + bits[8 * k - 5] * 32
        + bits[8 * k - 4] * 16 + bits[8 * k - 3] * 8 + bits[8 * k - 2] * 4
        + bits[8 * k - 1] * 2 + bits[8 * k]]

_hide_payload(s) ==
    LET b64 == B64Encode(Utf8Encode(s))
        bits == BytesToBits(b64)
    IN <<_ZWPREFIX>> \o [i \in 1..Len(bits) |-> IF bits[i] = 1 THEN _ZW1 ELSE _ZW0]

IsZWBit_Mutant(ch) == ch = _ZW0 \/ ch = _ZW1 \/ ch = _ZWPREFIX

\* ch in (_ZW0, _ZW1)
IsZWBit(ch) == ch = _ZW0 \/ ch = _ZW1

Contains_Mutant(s, sub) ==
    Len(s) >= Len(sub) /\ \A j \in 1..Len(sub) : s[j] = sub[j]

\* sub in s
Contains(s, sub) ==
    \E i \in 0..(Len(s) - Len(sub)) : \A j \in 1..Len(sub) : s[i + j] = sub[j]

\* s.startswith(pre)
StartsWith(s, pre) == Len(s) >= Len(pre) /\ \A j \in 1..Len(pre) : s[j] = pre[j]

ExceptToNone_Mutant(v) == v

\* try: return v / except Exception: return None
ExceptToNone(v) == IF v = Raised THEN None ELSE v

_reveal_payload(s) ==
    IF s = <<>> THEN None
    ELSE IF s[1] = _ZWPREFIX
      THEN LET zw == SelectSeq(s, IsZWBit)
               bits == [i \in 1..Len(zw) |-> IF zw[i] = _ZW1 THEN 1 ELSE 0]
           IN IF Len(bits) % 8 # 0 THEN None
              ELSE LET data == B64Decode(BitsToBytes(bits)) IN
                   ExceptToNone(IF data = Raised THEN Raised ELSE Utf8Decode(data))
    ELSE IF Contains(s, PARTICIPANT_EQ) /\ Contains(s, SPECTATOR_EQ) THEN s
    ELSE None

\* ------------------------------------------------------------ int(text)
IsDigit(c) == c >= 48 /\ c <= 57

\* the white space of the Unicode database (14.0) above U+00FF
WideSpaces == {5760, 8232, 8233, 8239, 8287, 12288} \cup (8192..8202)

\* the characters str.strip() removes
IsSpace(c) == c \in {9, 10, 11, 12, 13, 28, 29, 30, 31, 32, 133, 160} \cup WideSpaces

\* the characters int() skips around the number: U+001C..U+001F are white
\* space for str.strip() but not for int()
IsIntSpace(c) == c \in {9, 10, 11, 12, 13, 32, 133, 160} \cup WideSpaces

RECURSIVE LStrip(_)
LStrip(s) == IF s # <<>> /\ IsSpace(Head(s)) THEN LStrip(Tail(s)) ELSE s

RECURSIVE RStrip(_)
RStrip(s) == IF s # <<>> /\ IsSpace(s[Len(s)]) THEN RStrip(SubSeq(s, 1, Len(s) - 1)) ELSE s

Strip(s) == RStrip(LStrip(s))

RECURSIVE IntLStrip(_)
IntLStrip(s) == IF s # <<>> /\ IsIntSpace(Head(s)) THEN IntLStrip(Tail(s)) ELSE s

RECURSIVE IntRStrip(_)
IntRStrip(s) ==
    IF s # <<>> /\ IsIntSpace(s[Len(s)]) THEN IntRStrip(SubSeq(s, 1, Len(s) - 1)) ELSE s

\* the digit zero of every script with decimal digits (Unicode 14.0); the
\* nine code points after each are its digits one to nine
DecimalZeros ==
    {48, 1632, 1776, 1984, 2406, 2534, 2662, 2790, 2918, 3046, 3174, 3302, 3430, 3558,
     3664, 3792, 3872, 4160, 4240, 6112, 6160, 6470, 6608, 6784, 6800, 6992, 7088, 7232,
     7248, 42528, 43216, 43264, 43472, 43504, 43600, 44016, 65296, 66720, 68912, 69734,
     69872, 69942, 70096, 70384, 70736, 70864, 71248, 71360, 71472, 71904, 72016, 72784,
     73040, 73120, 92768, 92864, 93008, 120782, 120792, 120802, 120812, 120822, 123200,
     123632, 125264, 130032}

\* the characters int() reads as decimal digits
IsDecimal(c) == IsDigit(c) \/ (c > 127 /\ \E z \in DecimalZeros : z <= c /\ c <= z + 9)

DecimalValue(c) ==
    IF IsDigit(c) THEN c - 48 ELSE c - (CHOOSE z \in DecimalZeros : z <= c /\ c <= z + 9)

\* digits, single underscores allowed between digits
IsIntBody(d) ==
    /\ d # <<>>
    /\ IsDecimal(d[1]) /\ IsDecimal(d[Len(d)])
    /\ \A i \in 1..Len(d) : IsDecimal(d[i]) \/ d[i] = 95
    /\ \A i \in 1..(Len(d) - 1) : ~(d[i] = 95 /\ d[i + 1] = 95)

RECURSIVE DigitsValue(_, _)
DigitsValue(d, acc) ==
    IF d = <<>> THEN acc
    ELSE IF Head(d) = 95 THEN DigitsValue(Tail(d), acc)
    ELSE DigitsValue(Tail(d), 10 * acc + DecimalValue(Head(d)))

\* int(text): [ok |-> FALSE] stands for ValueError
ParseInt(text) ==
    LET t == IntRStrip(IntLStrip(text))
        neg == t # <<>> /\ t[1] = 45
        signed == t # <<>> /\ (t[1] = 45 \/ t[1] = 43)
        body == IF signed THEN Tail(t) ELSE t
    IN IF IsIntBody(body)
       THEN [ok |-> TRUE, val |-> IF neg THEN 0 - DigitsValue(body, 0) ELSE DigitsValue(body, 0)]
       ELSE [ok |-> FALSE, val |-> 0]

\* s.split(sep) for a one-character separator
RECURSIVE SplitFrom(_, _, _, _)
SplitFrom(s, sep, i, cur) ==
    IF i > Len(s) THEN <<cur>>
    ELSE IF s[i] = sep THEN <<cur>> \o SplitFrom(s, sep, i + 1, <<>>)
    ELSE SplitFrom(s, sep, i + 1, Append(cur, s[i]))

Split(s, sep) == SplitFrom(s, sep, 1, <<>>)

\* ---------------------------------------------- the ids in a payload
\* The loop of _toggle_role over payload.split("|"): the last part of each
\* kind wins; int() raising ValueError leaves the loop (err = TRUE).
\* An id is None until a part sets it.
\* an id that is set from the start
NoId_Mutant == [set |-> TRUE, val |-> 1]

NoId == [set |-> FALSE, val |-> 0]

RECURSIVE ParseParts(_, _, _)
ParseParts(parts, participant_id, spectator_id) ==
    IF parts = <<>> THEN [err |-> FALSE, participant_id |-> participant_id,
                          spectator_id |-> spectator_id]
    ELSE LET part == Head(parts) IN
      IF StartsWith(part, PARTICIPANT_EQ)
        THEN LET n == ParseInt(SubSeq(part, Len(PARTICIPANT_EQ) + 1, Len(part))) IN
             IF n.ok THEN ParseParts(Tail(parts), [set |-> TRUE, val |-> n.val], spectator_id)
             ELSE [err |-> TRUE, participant_id |-> participant_id, spectator_id |-> spectator_id]
      ELSE IF StartsWith(part, SPECTATOR_EQ)
        THEN LET n == ParseInt(SubSeq(part, Len(SPECTATOR_EQ) + 1, Len(part))) IN
             IF n.ok THEN ParseParts(Tail(parts), participant_id, [set |-> TRUE, val |-> n.val])
             ELSE [err |-> TRUE, participant_id |-> participant_id, spectator_id |-> spectator_id]
      ELSE ParseParts(Tail(parts), participant_id, spectator_id)

\* payload = revealed or ""; then the loop
IdsOfRevealed(revealed) ==
    ParseParts(Split(IF revealed = None THEN <<>> ELSE revealed, 124), NoId, NoId)

PayloadIds(footer_raw) == IdsOfRevealed(_reveal_payload(footer_raw))

\* ------------------------------------------------------------ the state
VARIABLES
    codec,          \* a payload on its way through hide and reveal
    panels,         \* the footer texts (the carriers) of the panel messages posted
    guildMembers,   \* the users who are members of the panel's guild
    memberRoles,    \* user -> the roles the user holds in the panel's guild
    PLAYED_QUEUE,   \* guild id -> set of user ids
    csv,            \* LOG_CSV_PATH: whether the file exists, and its rows
    render,         \* a call of the panel rendering under way, with its result
    tasks           \* the interactions, in the order they began: the handler
                    \* of each, where it stands, and the answer once it ended

vars == <<codec, panels, guildMembers, memberRoles, PLAYED_QUEUE, csv, render, tasks>>

\* the guild the panel was posted in; the roles that exist there, and the
\* roles of the other guilds (a role id belongs to one guild)
PanelGuild == 1
GuildRoleIds(g) == IF g = PanelGuild THEN {1, 2} ELSE {10 * g + 1, 10 * g + 2}

\* interaction.guild is None outside a guild
NoGuild == 0

\* PARTICIPANT_ROLE_ID and SPECTATOR_ROLE_ID of the environment
DEFAULT_PARTICIPANT_ROLE_ID == 1
DEFAULT_SPECTATOR_ROLE_ID == 0

\* The ids a call of create_mystery_panel can have resolved to: a role of the
\* guild given as parameter, or the id of the environment of the process,
\* which int() of lines 27-28 takes with any sign (-1).  Role 3 was a role of
\* the guild when its panel was posted and is deleted since.
\* Line 532: the footer create_mystery_panel writes for the ids pr_id and
\* sp_id.
FooterOf ==
    LET PanelIds == GuildRoleIds(PanelGuild)
                      \cup {DEFAULT_PARTICIPANT_ROLE_ID, DEFAULT_SPECTATOR_ROLE_ID}
                      \cup {3, -1}
    IN [pr_id \in PanelIds, sp_id \in PanelIds |->
          _hide_payload(PayloadText(pr_id, sp_id))]

\* The footer texts of the panel messages a button is pressed on.  The view
\* is persistent (line 387), so the panels posted by earlier runs of the bot
\* stay live: the panel for the roles 1 and 2, the panel whose participant
\* role 3 is deleted since, the panel posted while PARTICIPANT_ROLE_ID was
\* -1 (line 509 refuses only the id 0), and the panel message whose embed
\* was removed afterwards (msg.embeds is empty, lines 322-323).
PanelFooters == {FooterOf[1, 2], FooterOf[3, 2], FooterOf[-1, 2], <<>>}

\* lines 322-331: the ids the handler of a button reads from the footer of
\* the message pressed
FooterIds ==
    [f \in {FooterOf[ids] : ids \in DOMAIN FooterOf} \cup PanelFooters |-> PayloadIds(f)]

\* the bound on the interactions of one run
MaxHandlers == 2

Handlers == 1..MaxHandlers

\* One interaction.  pc: where its handler stands ("idle" before it began,
\* "done" after it ended, else the call it awaits); message: the footer of
\* the message whose join or watch button was pressed; locals: the local
\* variables of the handler while it runs; reply, role: the answer it is
\* about to send once pc is "answering" (or the confirmation of the role
\* edit it awaits), and the answer the user received once pc is "done"
\* ("none": the handler ended without an answer); on_raise: where an
\* exception of the awaited send goes.
Task(pc, handler, user, guild, message, locals, reply, role, on_raise) ==
    [pc |-> pc, handler |-> handler, user |-> user, guild |-> guild, message |-> message,
     locals |-> locals, reply |-> reply, role |-> role, on_raise |-> on_raise]

Idle == Task("idle", "none", 0, NoGuild, <<>>, <<>>, "none", 0, "none")

\* the handler of the interaction t has ended, and the user has received the
\* answer (reply, role)
Ended(t, reply, role) ==
    Task("done", t.handler, t.user, t.guild, t.message, <<>>, reply, role, "none")

NoTasks == [h \in Handlers |-> Idle]

\* interaction h begins: the interactions take the slots in their order
Begins(h) ==
    /\ tasks[h].pc = "idle"
    /\ \A k \in DOMAIN tasks : k < h => tasks[k].pc # "idle"

\* the handler is suspended in the send of an answer
Answering(t, reply, role, on_raise) ==
    [t EXCEPT !.pc = "answering", !.reply = reply, !.role = role, !.on_raise = on_raise]

\* lines 348-350, the except clause of _toggle_role: the exception is logged
\* and the processing error is sent; an exception of that send leaves the
\* handler
Caught(t) == Answering(t, "processing_error", 0, "none")

\* lines 690-696: an exception that leaves the callback of a slash command
\* is handed to the error handler of the tree, which answers with
\* interaction.response.send_message and, when that raises, with
\* interaction.followup.send
on_app_command_error(t) == Answering(t, "error", 0, "followup")

\* The awaited send of an answer ends (response.send_message or
\* followup.send).  When it raised: inside the try of _toggle_role the
\* except clause answers in its place ("except"); in a slash command the
\* error handler does ("error_handler"), whose own send_message is followed
\* by followup.send ("followup"); an exception of on_played, of line 319,
\* of line 350 or of the followup.send of the error handler leaves the
\* handler, which the library logs ("none"): the user gets no answer.
SendEnds(h) ==
    /\ tasks[h].pc = "answering"
    /\ \E send \in {"ok", "raised"} :
        LET t == tasks[h] IN
          tasks' = [tasks EXCEPT ![h] =
                      IF send = "ok" THEN Ended(t, t.reply, t.role)
                      ELSE IF t.on_raise = "except" THEN Caught(t)
                      ELSE IF t.on_raise = "error_handler" THEN on_app_command_error(t)
                      ELSE IF t.on_raise = "followup" THEN [t EXCEPT !.on_raise = "none"]
                      ELSE Ended(t, "none", 0)]
    /\ UNCHANGED <<codec, render, panels, guildMembers, memberRoles, PLAYED_QUEUE, csv>>

\* ------------------------------------------ MysterySignupView._toggle_role
\* the spectator id taken whatever the kind
TargetRoleId_Mutant(ids, role_kind) == ids.spectator_id

\* target_role_id = participant_id if role_kind == "participant" else spectator_id
TargetRoleId(ids, role_kind) ==
    IF role_kind = "participant" THEN ids.participant_id ELSE ids.spectator_id

\* lines 322-341, the code between the two awaits: what the handler decides
\* from the ids of the fetched footer and from member.roles as it is then
ToggleDecision(guild, roles, ids, role_kind) ==
    IF ids.err THEN [act |-> "raise", role |-> 0]
    ELSE LET target == TargetRoleId(ids, role_kind) IN
      IF ~target.set \/ target.val = 0 THEN [act |-> "role_id_not_set", role |-> 0]
      ELSE IF target.val \notin GuildRoleIds(guild) THEN [act |-> "role_not_found", role |-> 0]
      ELSE [act |-> IF target.val \in roles THEN "remove" ELSE "add", role |-> target.val]

\* the role added whatever the branch
RolesAfterEdit_Mutant(roles, act, role) == roles \cup {role}

\* member.remove_roles(role) or member.add_roles(role), when it succeeds
RolesAfterEdit(roles, act, role) ==
    IF act = "remove" THEN roles \ {role} ELSE roles \cup {role}

\* _toggle_role as the event loop runs it: a handler is suspended in
\* fetch_message (line 321), in add_roles / remove_roles (lines 343, 346)
\* and in the send of its answer, and other handlers run meanwhile.

\* lines 317-321: the button of a posted panel (the message with the footer
\* f) is pressed by a member of the panel's guild or by a user outside a
\* guild; the handler runs to its first await, the fetch of the message, or
\* outside a guild the send of line 319, which is before the try
_toggle_role(h, handler, role_kind) ==
    /\ Begins(h)
    /\ \E f \in panels, u \in {1, MaxUser}, guild \in {PanelGuild, NoGuild} :
        LET locals == [role_kind |-> role_kind, act |-> "none"] IN
          /\ guild # NoGuild => u \in guildMembers
          /\ tasks' = [tasks EXCEPT ![h] =
                         IF guild = NoGuild
                           THEN Task("answering", handler, u, guild, f, locals, "no_guild", 0,
                                     "none")
                           ELSE Task("fetching", handler, u, guild, f, locals, "none", 0,
                                     "none")]
    /\ UNCHANGED <<codec, render, panels, guildMembers, memberRoles, PLAYED_QUEUE, csv>>

on_join(h) == _toggle_role(h, "join", "participant")

on_watch(h) == _toggle_role(h, "watch", "spectator")

\* lines 321-346, fetch_message ends: when it raised, or int() raises on a
\* part of the payload, the except clause answers; else the handler goes on
\* to the send of the configuration error or of the not-found error, or to
\* the await of add_roles or remove_roles, which is chosen by
\* `role in member.roles` as it is now
ToggleFetched(h) ==
    /\ tasks[h].pc = "fetching"
    /\ \E fetch \in {"ok", "raised"} :
        LET t == tasks[h]
            d == ToggleDecision(t.guild, memberRoles[t.user], FooterIds[t.message],
                                t.locals.role_kind)
        IN tasks' = [tasks EXCEPT ![h] =
                       IF fetch = "raised" \/ d.act = "raise" THEN Caught(t)
                       ELSE IF d.act \in {"role_id_not_set", "role_not_found"}
                         THEN Answering(t, d.act, 0, "except")
                       ELSE [t EXCEPT !.pc = "editing", !.locals.act = d.act,
                                      !.reply = IF d.act = "remove" THEN "removed"
                                                ELSE "granted",
                                      !.role = d.role]]
    /\ UNCHANGED <<codec, render, panels, guildMembers, memberRoles, PLAYED_QUEUE, csv>>

\* lines 343-347, add_roles / remove_roles ends: the member's roles are
\* changed and the handler goes on to the send of the confirmation, or the
\* call raised and the except clause answers
ToggleEdited(h) ==
    /\ tasks[h].pc = "editing"
    /\ \E edit \in {"ok", "raised"} :
        LET t == tasks[h] IN
          /\ memberRoles' =
               IF edit = "ok"
                 THEN [memberRoles EXCEPT ![t.user] = RolesAfterEdit(@, t.locals.act, t.role)]
                 ELSE memberRoles
          /\ tasks' = [tasks EXCEPT ![h] =
                         IF edit = "ok" THEN [t EXCEPT !.pc = "answering", !.on_raise = "except"]
                         ELSE Caught(t)]
    /\ UNCHANGED <<codec, render, panels, guildMembers, PLAYED_QUEUE, csv>>

\* -------------------------------------------- MysterySignupView.on_played
GuildMembers(g) == IF g = PanelGuild THEN guildMembers ELSE Users

PlayedAfterToggle_Mutant(s, uid) == s \cup {uid}

PlayedAfterToggle_Mutant2(s, uid) == IF uid \in s THEN {} ELSE s \cup {uid}

PlayedAfterToggle(s, uid) == IF uid \in s THEN s \ {uid} ELSE s \cup {uid}

\* lines 303-314: user u presses the attended button in the guild (or
\* outside one).  The set of the guild is changed before the only await, the
\* send of the answer, in which the handler is suspended; no call is
\* inside a try, and the message of the button is not looked at
on_played(h, guild, u) ==
    /\ Begins(h)
    /\ guild # NoGuild => u \in GuildMembers(guild)
    /\ PLAYED_QUEUE' =
         IF guild = NoGuild THEN PLAYED_QUEUE
         ELSE [PLAYED_QUEUE EXCEPT ![guild] = PlayedAfterToggle(@, u)]
    /\ tasks' = [tasks EXCEPT ![h] =
                   Task("answering", "played", u, guild, <<>>, <<>>,
                        IF guild = NoGuild THEN "no_guild"
                        ELSE IF u \in PLAYED_QUEUE[guild] THEN "played_removed"
                        ELSE "played_added",
                        0, "none")]
    /\ UNCHANGED <<codec, render, panels, guildMembers, memberRoles, csv>>

\* ------------------------------------------------------- the payload codec
\* create_mystery_panel, line 532: the footer of a new panel
CodecInputs == {PayloadText(p, s) : p \in RoleIds, s \in RoleIds}

CodecIdle == [pc |-> "idle", x |-> <<>>, carrier |-> <<>>, out |-> <<>>]

Hide ==
    /\ codec.pc = "input"
    /\ codec' = [codec EXCEPT !.pc = "hidden", !.carrier = _hide_payload(codec.x)]
    /\ UNCHANGED <<render, tasks, panels, guildMembers, memberRoles, PLAYED_QUEUE, csv>>

Reveal ==
    /\ codec.pc = "hidden"
    /\ codec' = [codec EXCEPT !.pc = "revealed", !.out = _reveal_payload(codec.carrier)]
    /\ UNCHANGED <<render, tasks, panels, guildMembers, memberRoles, PLAYED_QUEUE, csv>>

InitCodec ==
    /\ codec \in {[pc |-> "input", x |-> x, carrier |-> <<>>, out |-> <<>>] : x \in CodecInputs}
    /\ panels = {}
    /\ guildMembers = Users
    /\ memberRoles = [u \in Users |-> {}]
    /\ PLAYED_QUEUE = [g \in Guilds |-> {}]
    /\ csv = [exists |-> FALSE, rows |-> <<>>]
    /\ tasks = NoTasks
    /\ render = [pc |-> "idle"]

NextCodec == Hide \/ Reveal

SpecCodec == InitCodec /\ [][NextCodec]_vars

\* ------------------------------------------- reveal on any carrier text
\* the zero-width characters that carry the bits of the bytes b
ZWBits(b) ==
    LET bits == BytesToBits(b) IN
      [i \in 1..Len(bits) |-> IF bits[i] = 1 THEN _ZW1 ELSE _ZW0]

\* Pieces of carrier texts: the marker, single bit characters, seven bit
\* characters, plain texts with one or both of the legacy substrings, and
\* the bits of "QQ==" (base64 of "A"), of "/w==" (base64 of the byte FF,
\* which is not UTF-8) and of "A" (not a complete base64 quad).
CarrierPieces ==
    { <<_ZWPREFIX>>, <<_ZW0>>, <<_ZW1>>,
      <<_ZW0, _ZW0, _ZW0, _ZW0, _ZW0, _ZW0, _ZW0>>,
      PARTICIPANT_EQ \o <<49>>,
      SPECTATOR_EQ \o <<50>>,
      PayloadText(1, 2),
      <<120>>,
      ZWBits(<<81, 81, 61, 61>>),
      ZWBits(<<47, 119, 61, 61>>),
      ZWBits(<<65>>) }

\* the bound on the pieces of a carrier text
MaxPieces == 3

\* the texts made of at most n pieces
RECURSIVE CarriersOf(_)
CarriersOf(n) ==
    IF n = 0 THEN {<<>>}
    ELSE LET shorter == CarriersOf(n - 1) IN
           shorter \cup {c \o piece : c \in shorter, piece \in CarrierPieces}

InitReveal ==
    /\ codec \in {[pc |-> "hidden", x |-> <<>>, carrier |-> c, out |-> <<>>] :
                    c \in CarriersOf(MaxPieces)}
    /\ panels = {}
    /\ guildMembers = Users
    /\ memberRoles = [u \in Users |-> {}]
    /\ PLAYED_QUEUE = [g \in Guilds |-> {}]
    /\ csv = [exists |-> FALSE, rows |-> <<>>]
    /\ tasks = NoTasks
    /\ render = [pc |-> "idle"]

NextReveal == Reveal

SpecReveal == InitReveal /\ [][NextReveal]_vars

\* ------------------------------------------------- the signup buttons
\* a panel is posted, no member holds a role, no button was pressed yet
InitSignup ==
    /\ codec = CodecIdle
    /\ panels \in {{f} : f \in PanelFooters}
    /\ guildMembers = Users
    /\ memberRoles = [u \in Users |-> {}]
    /\ PLAYED_QUEUE = [g \in Guilds |-> {}]
    /\ csv = [exists |-> FALSE, rows |-> <<>>]
    /\ tasks = NoTasks
    /\ render = [pc |-> "idle"]

\* presses of join and watch whose handlers overlap in any way
NextSignup ==
    \E h \in Handlers :
        on_join(h) \/ on_watch(h) \/ ToggleFetched(h) \/ ToggleEdited(h) \/ SendEnds(h)

SpecSignup == InitSignup /\ [][NextSignup]_vars

\* --------------------------------------- the signup buttons, one by one
\* a button is pressed only after the handler of the press before has ended
NextConsecutive ==
    \E h \in Handlers :
        \/ /\ \A k \in DOMAIN tasks : tasks[k].pc \in {"idle", "done"}
           /\ on_join(h) \/ on_watch(h)
        \/ ToggleFetched(h) \/ ToggleEdited(h) \/ SendEnds(h)

SpecConsecutive == InitSignup /\ [][NextConsecutive]_vars

\* ------------------------------------------------ the attended button
\* the bound on the attended actions of one run
MaxClicks == 3

InitPlayed ==
    /\ codec = CodecIdle
    /\ panels = {FooterOf[1, 2]}
    /\ guildMembers = Users
    /\ memberRoles = [u \in Users |-> {}]
    /\ PLAYED_QUEUE = [g \in Guilds |-> {}]
    /\ csv = [exists |-> FALSE, rows |-> <<>>]
    /\ tasks = [h \in 1..MaxClicks |-> Idle]
    /\ render = [pc |-> "idle"]

\* attended actions of any user in the panel's guild, in the guild with the
\* highest id, or outside a guild, whose handlers overlap in any way
NextPlayed ==
    \E h \in 1..MaxClicks :
        \/ \E guild \in {PanelGuild, MaxGuild, NoGuild}, u \in Users :
              on_played(h, guild, u)
        \/ SendEnds(h)

SpecPlayed == InitPlayed /\ [][NextPlayed]_vars

\* ------------------------------------------- register_mystery_history
ALLOWED_ROLE_ID == 0

\* the members whose guild_permissions.administrator is set (the owner)
Admins == {1}

\* member.roles; in the guilds other than the panel's no member holds a role
RolesIn(g, u) == IF g = PanelGuild THEN memberRoles[u] ELSE {}

\* everybody permitted
_is_admin_or_allowed_Mutant(g, member) == TRUE

_is_admin_or_allowed(g, member) ==
    \/ member \in Admins
    \/ (ALLOWED_ROLE_ID # 0 /\ ALLOWED_ROLE_ID \in RolesIn(g, member))

\* a role parameter that was not given, and a role that does not resolve
NoRole == 0

_role_from_param_or_env(g, role_param, env_id) ==
    IF role_param # NoRole THEN role_param
    ELSE IF env_id # 0 THEN (IF env_id \in GuildRoleIds(g) THEN env_id ELSE NoRole)
    ELSE NoRole

\* the elements of a set of numbers in ascending order
RECURSIVE Ascending(_)
Ascending(S) ==
    IF S = {} THEN <<>>
    ELSE LET m == CHOOSE x \in S : \A y \in S : x <= y IN <<m>> \o Ascending(S \ {m})

\* the order of the display names: the higher the id, the earlier the name
DisplayRank(u) == 0 - u

RECURSIVE ByDisplayName(_)
ByDisplayName(S) ==
    IF S = {} THEN <<>>
    ELSE LET m == CHOOSE x \in S : \A y \in S : DisplayRank(x) <= DisplayRank(y)
         IN <<m>> \o ByDisplayName(S \ {m})

\* list(role.members): the members of the guild who hold the role
RoleMembers(g, role) == Ascending({u \in GuildMembers(g) : role \in RolesIn(g, u)})

get_played_set(g) == PLAYED_QUEUE[g]

\* the queued ids that guild.get_member finds, sorted by display name
get_played_members(g) == ByDisplayName(get_played_set(g) \cap GuildMembers(g))

\* ",".join(str(id) for id in ids) or "-"
RECURSIVE JoinIds(_)
JoinIds(ids) ==
    IF ids = <<>> THEN <<>>
    ELSE IF Len(ids) = 1 THEN IntToStr(ids[1])
    ELSE IntToStr(ids[1]) \o <<44>> \o JoinIds(Tail(ids))

CsvIds(ids) == IF ids = <<>> THEN <<45>> ELSE JoinIds(ids)

CsvHeader == [header |-> TRUE]

CsvRow(pr_members, sp_members, played_ids) ==
    [participants |-> CsvIds(pr_members), spectators |-> CsvIds(sp_members),
     played |-> CsvIds(played_ids)]

\* lines 607-621, the file after the append.  The header is written when the
\* file did not exist (line 608), whatever it holds otherwise.  The append
\* ends in one of four ways: "ok"; "open_failed", open raised and the file is
\* as it was; "write_failed", the file was opened (and so exists) and nothing
\* written reached it; "row_failed", the writerow of the row raised (a
\* scenario that cannot be encoded) and what was written before it, the
\* header of a new file, is in the file.
CsvAppend(file, row, outcome) ==
    LET head == IF file.exists THEN <<>> ELSE <<CsvHeader>> IN
      IF outcome = "open_failed" THEN file
      ELSE IF outcome = "write_failed" THEN [exists |-> TRUE, rows |-> file.rows]
      ELSE IF outcome = "row_failed" THEN [exists |-> TRUE, rows |-> file.rows \o head]
      ELSE [exists |-> TRUE, rows |-> file.rows \o head \o <<row>>]

\* the next removal to await from (phase, i) on, or "done" past both lists
NextRemoval(r, phase, i) ==
    IF phase = "participant" /\ i <= Len(r.pr_members) THEN [phase |-> "participant", i |-> i]
    ELSE IF phase = "participant"
      THEN (IF 1 <= Len(r.sp_members) THEN [phase |-> "spectator", i |-> 1]
            ELSE [phase |-> "done", i |-> 0])
    ELSE IF i <= Len(r.sp_members) THEN [phase |-> "spectator", i |-> i]
    ELSE [phase |-> "done", i |-> 0]

\* the queue left as it is
Finish_Mutant(h, t) ==
    /\ UNCHANGED PLAYED_QUEUE
    /\ tasks' = [tasks EXCEPT ![h] =
                   Answering([t EXCEPT !.locals.phase = "done", !.locals.i = 0],
                             "summary", 0, "error_handler")]

\* the queues of all guilds cleared
Finish_Mutant2(h, t) ==
    /\ PLAYED_QUEUE' = [g \in Guilds |-> {}]
    /\ tasks' = [tasks EXCEPT ![h] =
                   Answering([t EXCEPT !.locals.phase = "done", !.locals.i = 0],
                             "summary", 0, "error_handler")]

\* lines 641-656: past the removals the queue of the guild is cleared and
\* the summary built from the snapshots and the counts; the handler is
\* suspended in the followup.send of the summary
Finish(h, t) ==
    /\ PLAYED_QUEUE' = [PLAYED_QUEUE EXCEPT ![t.guild] = {}]
    /\ tasks' = [tasks EXCEPT ![h] =
                   Answering([t EXCEPT !.locals.phase = "done", !.locals.i = 0],
                             "summary", 0, "error_handler")]

\* lines 626-636: the loops go on to the remove_roles of the member at pos,
\* in which the handler is suspended, or past the loops when none is left
Continue(h, t, pos) ==
    IF pos.phase = "done" THEN Finish(h, t)
    ELSE /\ tasks' = [tasks EXCEPT ![h] =
                        [t EXCEPT !.pc = "removing", !.locals.phase = pos.phase,
                                  !.locals.i = pos.i,
                                  !.locals.attempted =
                                      @ \cup {<<pos.phase,
                                                (IF pos.phase = "participant"
                                                 THEN t.locals.pr_members[pos.i]
                                                 ELSE t.locals.sp_members[pos.i])>>}]]
         /\ UNCHANGED PLAYED_QUEUE

\* lines 588-591: the command is called in guild g by the caller, with the
\* role parameters (NoRole: not given).  A caller without permission is sent
\* the refusal (line 589); the call of a permitted caller is suspended in
\* interaction.response.defer
register_mystery_history(h, g, caller, participant_role, spectator_role) ==
    /\ Begins(h)
    /\ caller \in GuildMembers(g)
    /\ {participant_role, spectator_role} \subseteq {NoRole} \cup GuildRoleIds(g)
    /\ LET locals == [participant_role |-> participant_role,
                      spectator_role |-> spectator_role]
       IN tasks' = [tasks EXCEPT ![h] =
                      IF ~_is_admin_or_allowed(g, caller)
                        THEN Task("answering", "register", caller, g, <<>>, locals,
                                  "no_permission", 0, "error_handler")
                        ELSE Task("deferred", "register", caller, g, <<>>, locals, "none", 0,
                                  "none")]
    /\ UNCHANGED <<codec, render, panels, guildMembers, memberRoles, PLAYED_QUEUE, csv>>

\* lines 591-626, the defer ends.  When it raised the error handler answers.
\* The roles are resolved; when one does not resolve the handler sends
\* not-found (line 597).  The three snapshots are taken.  _ensure_dirs (line
\* 605) is outside the try: when the directory of the file does not exist
\* (so the file does not either) and cannot be made, its exception leaves
\* the callback ("dirs_raised") with nothing written, removed or cleared.
\* The row is appended with one of the outcomes of CsvAppend; an exception
\* of the append is logged (line 621) and the handler goes on, to the first
\* awaited removal or, when nobody holds either role, past the loops.
RegisterSnapshot(h) ==
    /\ tasks[h].pc = "deferred"
    /\ \E api \in {"ok", "defer_raised", "dirs_raised", "open_failed", "write_failed",
                   "row_failed"} :
        LET t == tasks[h]
            g == t.guild
            pr == _role_from_param_or_env(g, t.locals.participant_role,
                                          DEFAULT_PARTICIPANT_ROLE_ID)
            sp == _role_from_param_or_env(g, t.locals.spectator_role,
                                          DEFAULT_SPECTATOR_ROLE_ID)
        IN IF api = "defer_raised"
             THEN /\ tasks' = [tasks EXCEPT ![h] = on_app_command_error(t)]
                  /\ UNCHANGED <<csv, PLAYED_QUEUE>>
           ELSE IF pr = NoRole \/ sp = NoRole
             THEN /\ api = "ok"
                  /\ tasks' = [tasks EXCEPT ![h] =
                                 Answering(t, "roles_not_found", 0, "error_handler")]
                  /\ UNCHANGED <<csv, PLAYED_QUEUE>>
           ELSE IF api = "dirs_raised"
             THEN /\ ~csv.exists
                  /\ tasks' = [tasks EXCEPT ![h] = on_app_command_error(t)]
                  /\ UNCHANGED <<csv, PLAYED_QUEUE>>
           ELSE LET r == [participant_role |-> t.locals.participant_role,
                          spectator_role |-> t.locals.spectator_role,
                          pr |-> pr, sp |-> sp,
                          pr_members |-> RoleMembers(g, pr),
                          sp_members |-> RoleMembers(g, sp),
                          played_ids |-> get_played_members(g),
                          logged |-> api # "ok",
                          phase |-> "participant", i |-> 0,
                          removed_cnt |-> [participant |-> 0, spectator |-> 0],
                          attempted |-> {}]
                IN /\ csv' = CsvAppend(csv, CsvRow(r.pr_members, r.sp_members,
                                                   r.played_ids), api)
                   /\ Continue(h, Task("removing", "register", t.user, g, <<>>, r, "none", 0,
                                       "none"),
                               NextRemoval(r, "participant", 1))
    /\ UNCHANGED <<codec, render, panels, guildMembers, memberRoles>>

\* lines 626-639, the awaited remove_roles ends: the role is removed and
\* counted ("ok"), or discord.Forbidden is passed over ("forbidden"), and the
\* loops go on; any other exception ("error") leaves both loops for the
\* outer except clause, which logs it
RegisterRemove(h) ==
    /\ tasks[h].pc = "removing"
    /\ \E outcome \in {"ok", "forbidden", "error"} :
        LET t == tasks[h]
            r == t.locals
            m == IF r.phase = "participant" THEN r.pr_members[r.i] ELSE r.sp_members[r.i]
            role == IF r.phase = "participant" THEN r.pr ELSE r.sp
            counted == IF outcome = "ok"
                       THEN [t EXCEPT !.locals.removed_cnt[r.phase] = @ + 1]
                       ELSE t
        IN /\ memberRoles' = IF outcome = "ok"
                             THEN [memberRoles EXCEPT ![m] = @ \ {role}]
                             ELSE memberRoles
           /\ IF outcome = "error" THEN Finish(h, counted)
              ELSE Continue(h, counted, NextRemoval(r, r.phase, r.i + 1))
    /\ UNCHANGED <<codec, render, panels, guildMembers, csv>>

\* The user with the highest id has left the guild (and may have left an
\* entry in the queue); the others hold any roles, and the queue holds any ids.
InitHistory ==
    /\ codec = CodecIdle
    /\ panels = {FooterOf[1, 2]}
    /\ guildMembers = Users \ {MaxUser}
    /\ memberRoles \in [Users -> SUBSET GuildRoleIds(PanelGuild)]
    /\ \A u \in Users \ guildMembers : memberRoles[u] = {}
    /\ PLAYED_QUEUE \in [Guilds -> SUBSET Users]
    /\ \A g \in Guilds \ {PanelGuild} : PLAYED_QUEUE[g] = {}
    /\ csv = [exists |-> FALSE, rows |-> <<>>]
    /\ tasks = NoTasks
    /\ render = [pc |-> "idle"]

\* Calls of the command in the panel's guild, by the owner or by the member
\* with the highest id, with or without the spectator role given
\* (PARTICIPANT_ROLE_ID is set, SPECTATOR_ROLE_ID is not), and attended
\* actions of any user there; the handlers overlap in any way.
NextHistory ==
    \E h \in Handlers :
        \/ \E caller \in {1, MaxUser}, spectator_role \in {NoRole, 2} :
              register_mystery_history(h, PanelGuild, caller, NoRole, spectator_role)
        \/ RegisterSnapshot(h) \/ RegisterRemove(h)
        \/ \E u \in Users : on_played(h, PanelGuild, u)
        \/ SendEnds(h)

SpecHistory == InitHistory /\ [][NextHistory]_vars

\* Member 1 holds both roles of the panel and is in the queue, which may
\* also hold the id of the user with the highest id, who has left the guild.
InitCompletes ==
    /\ codec = CodecIdle
    /\ panels = {FooterOf[1, 2]}
    /\ guildMembers = Users \ {MaxUser}
    /\ memberRoles = [u \in Users |-> IF u = 1 THEN GuildRoleIds(PanelGuild) ELSE {}]
    /\ PLAYED_QUEUE \in [Guilds -> {{1}, {1, MaxUser}, {}}]
    /\ PLAYED_QUEUE[PanelGuild] # {}
    /\ \A g \in Guilds \ {PanelGuild} : PLAYED_QUEUE[g] = {}
    /\ csv = [exists |-> FALSE, rows |-> <<>>]
    /\ tasks = NoTasks
    /\ render = [pc |-> "idle"]

\* the event loop resumes a handler whose awaited call has ended
SpecHistoryFair ==
    /\ InitCompletes /\ [][NextHistory]_vars
    /\ \A h \in Handlers : WF_vars(RegisterSnapshot(h)) /\ WF_vars(RegisterRemove(h))
                              /\ WF_vars(SendEnds(h))

\* ------------------------------------------- the queues of all guilds
\* the command called in the panel's guild or in the guild with the highest
\* id: by the owner, with the two roles of the guild or without role
\* parameters, or by the member with the highest id
RegisterInGuilds(h) ==
    \E g \in {PanelGuild, MaxGuild},
       call \in {<<1, TRUE>>, <<1, FALSE>>, <<MaxUser, FALSE>>} :
        LET low == CHOOSE r \in GuildRoleIds(g) : \A q \in GuildRoleIds(g) : r <= q
        IN register_mystery_history(h, g, call[1],
                                    IF call[2] THEN low ELSE NoRole,
                                    IF call[2] THEN low + 1 ELSE NoRole)

\* an attended action of the owner or of the member with the highest id, in
\* the panel's guild or in the guild with the highest id, while
\* registrations may be under way
AttendedInGuilds(h) ==
    \E g \in {PanelGuild, MaxGuild}, u \in {1, MaxUser} : on_played(h, g, u)

\* every member is in the guilds, user 1 holds the participant role of the
\* panel's guild, and the user with the highest id is in the queue of the
\* panel's guild and in the queue of the guild with the highest id
InitQueues ==
    /\ codec = CodecIdle
    /\ panels = {FooterOf[1, 2]}
    /\ guildMembers = Users
    /\ memberRoles = [u \in Users |-> IF u = 1 THEN {1} ELSE {}]
    /\ PLAYED_QUEUE = [g \in Guilds |-> IF g \in {PanelGuild, MaxGuild} THEN {MaxUser}
                                         ELSE {}]
    /\ csv = [exists |-> FALSE, rows |-> <<>>]
    /\ tasks = NoTasks
    /\ render = [pc |-> "idle"]

NextQueues ==
    \E h \in Handlers :
        \/ RegisterInGuilds(h) \/ RegisterSnapshot(h) \/ RegisterRemove(h)
        \/ AttendedInGuilds(h) \/ SendEnds(h)

SpecQueues == InitQueues /\ [][NextQueues]_vars

\* ------------------------------------------------------- draw_multiline
\* the characters of the texts that are wrapped: 'a', the wide 'W', and the
\* line feed
Glyphs == {97, 87, 10}

IsLineFeed(c) == c = 10

\* the advance of a character in the font: the measurement of the text is the
\* font's, here 'a' is one unit wide and 'W' two
GlyphW(c) == IF IsLineFeed(c) THEN 0 ELSE IF c = 87 THEN 2 ELSE 1

Wider(a, b) == IF a >= b THEN a ELSE b

\* draw.textbbox((0, 0), s, font=font): r - l.  A text with line feeds is
\* measured as a multi-line text, its width the width of its widest line.
RECURSIVE TextWFrom(_, _, _, _)
TextWFrom(s, i, cur, widest) ==
    IF i > Len(s) THEN Wider(cur, widest)
    ELSE IF IsLineFeed(s[i]) THEN TextWFrom(s, i + 1, 0, Wider(cur, widest))
    ELSE TextWFrom(s, i + 1, cur + GlyphW(s[i]), widest)

text_w(s) == TextWFrom(s, 1, 0, 0)

\* text_w(test) <= max_width, with the strict comparison in its place
Fits_Mutant(s, max_width) == text_w(s) < max_width

\* text_w(test) <= max_width
Fits(s, max_width) == text_w(s) <= max_width

\* for ch in text: the character joins the current line when the line still
\* fits, else the current line is closed and a new one starts with ch; the
\* line left at the end is kept if it is not empty
RECURSIVE WrapFrom(_, _, _, _, _)
WrapFrom(text, i, cur, lines, max_width) ==
    IF i > Len(text)
      THEN IF cur # <<>> THEN Append(lines, cur) ELSE lines
    ELSE LET ch == text[i]
             test == Append(cur, ch)
         IN IF Fits(test, max_width)
              THEN WrapFrom(text, i + 1, test, lines, max_width)
              ELSE WrapFrom(text, i + 1, <<ch>>, Append(lines, cur), max_width)

\* the lines draw_multiline draws, top to bottom; none for an empty text
WrapLines(text, max_width) ==
    IF text = <<>> THEN <<>> ELSE WrapFrom(text, 1, <<>>, <<>>, max_width)

\* the bounds on the wrapped texts and on the width budget
MaxText == 5
MaxWidth == 4

\* the texts of at most n characters
TextsUpTo(n) == UNION {[1..m -> Glyphs] : m \in 0..n}

\* one call: the lines are computed and drawn one below the other
draw_multiline ==
    /\ render.pc = "draw_multiline"
    /\ render' = [pc |-> "drawn", text |-> render.text, max_width |-> render.max_width,
                  lines |-> WrapLines(render.text, render.max_width)]
    /\ UNCHANGED <<codec, tasks, panels, guildMembers, memberRoles, PLAYED_QUEUE, csv>>

InitWrap ==
    /\ codec = CodecIdle
    /\ panels = {}
    /\ guildMembers = Users
    /\ memberRoles = [u \in Users |-> {}]
    /\ PLAYED_QUEUE = [g \in Guilds |-> {}]
    /\ csv = [exists |-> FALSE, rows |-> <<>>]
    /\ tasks = NoTasks
    /\ render \in {[pc |-> "draw_multiline", text |-> t, max_width |-> w] :
                     t \in TextsUpTo(MaxText), w \in 1..MaxWidth}

NextWrap == draw_multiline

SpecWrap == InitWrap /\ [][NextWrap]_vars

\* ------------------------------------------------------------- make_panel
\* a fetched image, as fetch_image returns it
Picture == <<-3>>

\* a non-empty URL
SomeUrl == <<104>>

\* fetch_image(url) returning what the request and the decoding gave, with no
\* try around them
fetch_image_Mutant(url, response) == IF url = <<>> THEN None ELSE response

\* fetch_image(url): None for an empty url; else the picture, or None when the
\* request, its status or the decoding raised
fetch_image(url, response) == IF url = <<>> THEN None ELSE ExceptToNone(response)

\* the code points c for which chr(c).isdigit() holds, as runs <<first, last>>
\* (Unicode 14.0: the decimal digits of every script, and the superscript,
\* subscript, circled and other digits)
DigitRuns ==
    {<<48, 57>>, <<178, 179>>, <<185, 185>>, <<1632, 1641>>, <<1776, 1785>>, <<1984,
     1993>>, <<2406, 2415>>, <<2534, 2543>>, <<2662, 2671>>, <<2790, 2799>>, <<2918,
     2927>>, <<3046, 3055>>, <<3174, 3183>>, <<3302, 3311>>, <<3430, 3439>>, <<3558,
     3567>>, <<3664, 3673>>, <<3792, 3801>>, <<3872, 3881>>, <<4160, 4169>>, <<4240,
     4249>>, <<4969, 4977>>, <<6112, 6121>>, <<6160, 6169>>, <<6470, 6479>>, <<6608,
     6618>>, <<6784, 6793>>, <<6800, 6809>>, <<6992, 7001>>, <<7088, 7097>>, <<7232,
     7241>>, <<7248, 7257>>, <<8304, 8304>>, <<8308, 8313>>, <<8320, 8329>>, <<9312,
     9320>>, <<9332, 9340>>, <<9352, 9360>>, <<9450, 9450>>, <<9461, 9469>>, <<9471,
     9471>>, <<10102, 10110>>, <<10112, 10120>>, <<10122, 10130>>, <<42528, 42537>>,
     <<43216, 43225>>, <<43264, 43273>>, <<43472, 43481>>, <<43504, 43513>>, <<43600,
     43609>>, <<44016, 44025>>, <<65296, 65305>>, <<66720, 66729>>, <<68160, 68163>>,
     <<68912, 68921>>, <<69216, 69224>>, <<69714, 69722>>, <<69734, 69743>>, <<69872,
     69881>>, <<69942, 69951>>, <<70096, 70105>>, <<70384, 70393>>, <<70736, 70745>>,
     <<70864, 70873>>, <<71248, 71257>>, <<71360, 71369>>, <<71472, 71481>>, <<71904,
     71913>>, <<72016, 72025>>, <<72784, 72793>>, <<73040, 73049>>, <<73120, 73129>>,
     <<92768, 92777>>, <<92864, 92873>>, <<93008, 93017>>, <<120782, 120831>>, <<123200,
     123209>>, <<123632, 123641>>, <<125264, 125273>>, <<127232, 127242>>, <<130032,
     130041>>}

\* str.isdigit()
isdigit(s) ==
    s # <<>> /\ \A i \in 1..Len(s) : \E r \in DigitRuns : s[i] >= r[1] /\ s[i] <= r[2]

\* " 名"
UNIT_SUFFIX == <<32, 21517>>

\* s = str(p).strip(); s + " 名" if s.isdigit() else s
fmt_players(p) == LET s == Strip(p) IN IF isdigit(s) THEN s \o UNIT_SUFFIX ELSE s

\* the drawing steps of make_panel in the order of the code, for the
\* background bg and corner picture corner (None when absent)
PanelSteps(bg, corner, panel_opacity) ==
    <<"canvas">>
    \o (IF bg # None THEN <<"background">> ELSE <<>>)
    \o <<"accent_bar">>
    \o (IF corner # None THEN <<"thumbnail">> ELSE <<>>)
    \o (IF panel_opacity > 0 THEN <<"plate">> ELSE <<>>)
    \o <<"title", "row_date", "row_players", "row_duration", "note_label", "note",
         "footer", "png">>

\* the characters of the party-size values: '6', 'T', the space, the
\* superscript two and the full-width '6' (U+FF16)
PlayerChars == {54, 84, 32, 178, 65302}

\* the bound on the length of the party-size value
MaxPlayers == 3

\* make_panel called with the arguments and fetch outcomes of r: the two
\* fetches, the steps drawn, the party-size row as formatted; an exception
\* leaving a fetch ends the call
PanelOf(r) ==
    LET bg == IF r.bg_url # <<>> THEN fetch_image(r.bg_url, r.bg_response) ELSE None
        corner == IF r.corner_image_url # <<>>
                    THEN fetch_image(r.corner_image_url, r.corner_response)
                    ELSE None
    IN IF bg = Raised
         THEN [r EXCEPT !.pc = "raised", !.steps = <<"canvas">>]
       ELSE IF corner = Raised
         THEN [r EXCEPT !.pc = "raised",
                        !.steps = <<"canvas">>
                                  \o (IF bg # None THEN <<"background">> ELSE <<>>)
                                  \o <<"accent_bar">>]
       ELSE [r EXCEPT !.pc = "rendered",
                      !.steps = PanelSteps(bg, corner, r.panel_opacity),
                      !.players_row = fmt_players(r.players)]

\* the arguments of a call of make_panel, with the outcomes of its fetches
PanelCall(bu, br, cu, cr, po, p) ==
    [pc |-> "make_panel", bg_url |-> bu, bg_response |-> br,
     corner_image_url |-> cu, corner_response |-> cr,
     panel_opacity |-> po, players |-> p,
     steps |-> <<>>, players_row |-> <<>>]

\* one call of make_panel
make_panel ==
    /\ render.pc = "make_panel"
    /\ render' = PanelOf(render)
    /\ UNCHANGED <<codec, tasks, panels, guildMembers, memberRoles, PLAYED_QUEUE, csv>>

InitMakePanel ==
    /\ codec = CodecIdle
    /\ panels = {}
    /\ guildMembers = Users
    /\ memberRoles = [u \in Users |-> {}]
    /\ PLAYED_QUEUE = [g \in Guilds |-> {}]
    /\ csv = [exists |-> FALSE, rows |-> <<>>]
    /\ tasks = NoTasks
    /\ render \in {PanelCall(bu, br, cu, cr, po, p) :
                     bu \in {<<>>, SomeUrl}, br \in {Raised, Picture},
                     cu \in {<<>>, SomeUrl}, cr \in {Raised, Picture},
                     po \in {0, 110},
                     p \in UNION {[1..m -> PlayerChars] : m \in 0..MaxPlayers}}

NextMakePanel == make_panel

SpecMakePanel == InitMakePanel /\ [][NextMakePanel]_vars

\* ---------------------------------------------------------------- get_font
\* A file is missing, is no font ("malformed"), or is a font.  The paths are
\* numbered: 0 is FONT_PATH, 1..6 are the fixed candidates in the order of
\* the list, 7 is _FONT_CACHE_PATH.
FileStates == {"missing", "malformed", "font"}

FixedCandidates == 1..6

ConfiguredPath == 0

CachePath == 7

\* the sizes make_panel asks for with FONT_SCALE 1.0
FontSizes == {22, 30, 32, 34, 56}

\* the state of the file at path p; FONT_PATH "unset" is the empty string
FileAt(env, p) ==
    IF p = ConfiguredPath THEN env.configured
    ELSE IF p = CachePath THEN env.cache
    ELSE env.fixed[p]

\* candidates: FONT_PATH when set, then the fixed list
Candidates(env) ==
    (IF env.configured # "unset" THEN <<ConfiguredPath>> ELSE <<>>)
        \o [i \in FixedCandidates |-> i]

\* None, as a path
NoPath == 0 - 1

\* an exception raised where a font was to be returned, and no font yet
FontRaised == [kind |-> "raised", path |-> NoPath, size |-> 0]
NoFont == [kind |-> "none", path |-> NoPath, size |-> 0]

\* the first candidate that exists, None when there is none
_resolve_font_path(env) ==
    LET c == Candidates(env)
        found == {i \in 1..Len(c) : FileAt(env, c[i]) # "missing"}
    IN IF found = {} THEN NoPath
       ELSE c[CHOOSE i \in found : \A j \in found : i <= j]

\* ImageFont.truetype(path, size=size) on a file in the given state
truetype(state, path, size) ==
    IF state = "font" THEN [kind |-> "truetype", path |-> path, size |-> size]
    ELSE FontRaised

\* ImageFont.load_default()
load_default == [kind |-> "default", path |-> NoPath, size |-> 0]

\* the file at _FONT_CACHE_PATH after the try of lines 116-121: written with
\* what the request returned when it was missing and the request succeeded
CacheAfter(env) ==
    IF env.cache = "missing" /\ env.download # "fails" THEN env.download ELSE env.cache

\* lines 115-124: the font of FONT_URL, FontRaised when the request or the
\* loading raises
FromUrl(env, size) ==
    IF env.cache = "missing" /\ env.download = "fails" THEN FontRaised
    ELSE truetype(CacheAfter(env), CachePath, size)

\* get_font(size): the font handle returned
FontOf(env, size) ==
    LET local == _resolve_font_path(env)
        from_local == IF local # NoPath THEN truetype(FileAt(env, local), local, size)
                      ELSE FontRaised
    IN IF from_local # FontRaised THEN from_local
       ELSE IF env.url_set /\ FromUrl(env, size) # FontRaised THEN FromUrl(env, size)
       ELSE load_default

\* whether get_font gets as far as the try of FONT_URL
ReachesUrl(env) ==
    LET local == _resolve_font_path(env) IN
      env.url_set /\ (local = NoPath \/ FileAt(env, local) # "font")

\* one call of get_font
get_font ==
    /\ render.pc = "get_font"
    /\ render' = [render EXCEPT
                    !.pc = "got_font",
                    !.font = FontOf(render.env, render.size),
                    !.env.cache = IF ReachesUrl(render.env) THEN CacheAfter(render.env)
                                  ELSE @]
    /\ UNCHANGED <<codec, tasks, panels, guildMembers, memberRoles, PLAYED_QUEUE, csv>>

\* every state of the font files, of FONT_PATH and FONT_URL, and of the
\* request for FONT_URL
InitFont ==
    /\ codec = CodecIdle
    /\ panels = {}
    /\ guildMembers = Users
    /\ memberRoles = [u \in Users |-> {}]
    /\ PLAYED_QUEUE = [g \in Guilds |-> {}]
    /\ csv = [exists |-> FALSE, rows |-> <<>>]
    /\ tasks = NoTasks
    /\ render \in {[pc |-> "get_font", size |-> size, font |-> NoFont,
                    env |-> [configured |-> cf, fixed |-> fx, url_set |-> us,
                             cache |-> ca, download |-> dl]] :
                     size \in FontSizes,
                     cf \in {"unset"} \cup FileStates,
                     fx \in [FixedCandidates -> FileStates],
                     us \in BOOLEAN,
                     ca \in FileStates,
                     dl \in {"fails", "malformed", "font"}}

NextFont == get_font

SpecFont == InitFont /\ [][NextFont]_vars

\* --------------------------------------------------------------- draw_text
\* the colours of the calls in make_panel, and positions to draw at
Colours == {"white", "black", "grey"}

Positions == {<<70, 60>>, <<74, 140>>}

\* the bound on the stroke widths
MaxStroke == 2

\* draw.text(xy, text, font=font, fill=fill, stroke_width=w, stroke_fill=c)
StrokedDraw(xy, fill, w, c) == [xy |-> xy, fill |-> fill, stroke_width |-> w, stroke_fill |-> c]

\* draw.text(xy, text, font=font, fill=fill): no stroke
PlainDraw(xy, fill) == [xy |-> xy, fill |-> fill, stroke_width |-> 0, stroke_fill |-> "none"]

\* the two passes in the other order
DrawCalls_Mutant(xy, fill, outline, outline_w, inline_w) ==
    <<(IF inline_w > 0 THEN StrokedDraw(xy, fill, inline_w, fill) ELSE PlainDraw(xy, fill))>>
    \o (IF outline_w > 0 THEN <<StrokedDraw(xy, fill, outline_w, outline)>> ELSE <<>>)

\* the calls of draw.text that draw_text makes, in their order
DrawCalls(xy, fill, outline, outline_w, inline_w) ==
    (IF outline_w > 0 THEN <<StrokedDraw(xy, fill, outline_w, outline)>> ELSE <<>>)
    \o <<(IF inline_w > 0 THEN StrokedDraw(xy, fill, inline_w, fill) ELSE PlainDraw(xy, fill))>>

\* one call of draw_text
draw_text ==
    /\ render.pc = "draw_text"
    /\ render' = [render EXCEPT
                    !.pc = "text_drawn",
                    !.draws = DrawCalls(render.xy, render.fill, render.outline,
                                        render.outline_w, render.inline_w)]
    /\ UNCHANGED <<codec, tasks, panels, guildMembers, memberRoles, PLAYED_QUEUE, csv>>

\* every position, pair of colours and pair of stroke widths, the widths
\* from -1 on
InitDrawText ==
    /\ codec = CodecIdle
    /\ panels = {}
    /\ guildMembers = Users
    /\ memberRoles = [u \in Users |-> {}]
    /\ PLAYED_QUEUE = [g \in Guilds |-> {}]
    /\ csv = [exists |-> FALSE, rows |-> <<>>]
    /\ tasks = NoTasks
    /\ render \in {[pc |-> "draw_text", xy |-> xy, fill |-> fill, outline |-> outline,
                    outline_w |-> ow, inline_w |-> iw, draws |-> <<>>] :
                     xy \in Positions, fill \in Colours, outline \in Colours,
                     ow \in (0 - 1)..MaxStroke, iw \in (0 - 1)..MaxStroke}

NextDrawText == draw_text

SpecDrawText == InitDrawText /\ [][NextDrawText]_vars

\* ------------------------------------------------- create_mystery_panel
\* is_allowed(interaction): everybody when ALLOWED_ROLE_ID is 0
is_allowed(g, user) == ALLOWED_ROLE_ID = 0 \/ ALLOWED_ROLE_ID \in RolesIn(g, user)

\* (role.id if role else DEFAULT_..._ROLE_ID) or 0
PanelRoleId(role_param, env_id) == IF role_param # NoRole THEN role_param ELSE env_id

\* pr_id == 0 or sp_id == 0, with "and" in its place
IdsUnset_Mutant(pr_id, sp_id) == pr_id = 0 /\ sp_id = 0

\* pr_id == 0 or sp_id == 0
IdsUnset(pr_id, sp_id) == pr_id = 0 \/ sp_id = 0

\* create_mystery_panel as the event loop runs it: the handler is suspended
\* in interaction.response.defer (line 505), in the followup.send of the
\* panel (line 535) or in the send of another answer, and other handlers
\* run meanwhile.

\* lines 502-505: the command is called by the owner of the guild (is_allowed
\* gives every member the same answer while ALLOWED_ROLE_ID is unset), with
\* or without role parameters; a caller who is not allowed is sent the
\* refusal, the call of another is suspended in the defer
create_mystery_panel(h) ==
    /\ Begins(h)
    /\ \E caller \in {1},
          participant_role \in {NoRole} \cup GuildRoleIds(PanelGuild),
          spectator_role \in {NoRole} \cup GuildRoleIds(PanelGuild) :
        LET locals == [participant_role |-> participant_role,
                       spectator_role |-> spectator_role, footer |-> <<>>]
        IN /\ caller \in guildMembers
           /\ tasks' = [tasks EXCEPT ![h] =
                          IF ~is_allowed(PanelGuild, caller)
                            THEN Task("answering", "create", caller, PanelGuild, <<>>, locals,
                                      "not_allowed", 0, "error_handler")
                            ELSE Task("deferring", "create", caller, PanelGuild, <<>>, locals,
                                      "none", 0, "none")]
    /\ UNCHANGED <<codec, render, panels, guildMembers, memberRoles, PLAYED_QUEUE, csv>>

\* lines 505-535, the defer ends: when it raised the error handler answers;
\* the two ids; when one is zero the handler sends that (line 510); else the
\* image is rendered (with or without a background, whose fetch may fail;
\* without one there is no fetch and bg_response is not looked at), the
\* footer of the embed is written, and the handler is suspended in the
\* followup.send of the panel
CreateDeferred(h) ==
    /\ tasks[h].pc = "deferring"
    /\ \E defer \in {"ok", "raised"},
          bg_url \in {<<>>, SomeUrl}, bg_response \in {Raised, Picture} :
        LET t == tasks[h]
            pr_id == PanelRoleId(t.locals.participant_role, DEFAULT_PARTICIPANT_ROLE_ID)
            sp_id == PanelRoleId(t.locals.spectator_role, DEFAULT_SPECTATOR_ROLE_ID)
            posts == defer = "ok" /\ ~IdsUnset(pr_id, sp_id)
        IN /\ bg_url = <<>> => bg_response = Picture
           /\ ~posts => (bg_url = <<>>)
           /\ IF posts
                THEN /\ render' = PanelOf(PanelCall(bg_url, bg_response, <<>>, Raised, 0,
                                                    <<54>>))
                     /\ tasks' = [tasks EXCEPT ![h] =
                                    [t EXCEPT !.pc = "posting",
                                              !.locals.footer = FooterOf[pr_id, sp_id],
                                              !.reply = "panel",
                                              !.on_raise = "error_handler"]]
                ELSE /\ tasks' = [tasks EXCEPT ![h] =
                                    IF defer = "raised" THEN on_app_command_error(t)
                                    ELSE Answering(t, "role_ids_unset", 0, "error_handler")]
                     /\ UNCHANGED render
    /\ UNCHANGED <<codec, panels, guildMembers, memberRoles, PLAYED_QUEUE, csv>>

\* line 535, the followup.send of the panel ends: the message with the
\* image, the embed and the buttons is posted, or the send raised, nothing
\* is posted and the error handler answers
CreatePosted(h) ==
    /\ tasks[h].pc = "posting"
    /\ \E send \in {"ok", "raised"} :
        LET t == tasks[h] IN
          /\ panels' = IF send = "ok" THEN panels \cup {t.locals.footer} ELSE panels
          /\ tasks' = [tasks EXCEPT ![h] =
                         IF send = "ok" THEN Ended(t, "panel", 0)
                         ELSE on_app_command_error(t)]
    /\ UNCHANGED <<codec, render, guildMembers, memberRoles, PLAYED_QUEUE, csv>>

\* no panel is posted yet; the members hold no roles
InitPanel ==
    /\ codec = CodecIdle
    /\ panels = {}
    /\ guildMembers = Users
    /\ memberRoles = [u \in Users |-> {}]
    /\ PLAYED_QUEUE = [g \in Guilds |-> {}]
    /\ csv = [exists |-> FALSE, rows |-> <<>>]
    /\ tasks = NoTasks
    /\ render = [pc |-> "idle"]

\* calls of the command, presses of the buttons of the panels posted, and
\* attended actions, whose handlers overlap in any way
NextPanel ==
    \E h \in Handlers :
        \/ create_mystery_panel(h) \/ CreateDeferred(h) \/ CreatePosted(h)
        \/ on_join(h) \/ on_watch(h) \/ ToggleFetched(h) \/ ToggleEdited(h)
        \/ \E u \in {1, MaxUser} : on_played(h, PanelGuild, u)
        \/ SendEnds(h)

SpecPanel == InitPanel /\ [][NextPanel]_vars

\* ===================================================== the properties
\* the footers a panel carries in the specifications
FootersSeen == DOMAIN FooterIds

\* the payload each of them reveals to
Revealed == [f \in FootersSeen |-> _reveal_payload(f)]

\* the revealed payload r gives the kind a non-zero id that names an existing role
DecodesToRole(r, kind) ==
    LET ids == IdsOfRevealed(r)
        target == TargetRoleId(ids, kind)
    IN ~ids.err /\ target.set /\ target.val # 0 /\ target.val \in GuildRoleIds(PanelGuild)

\* for every footer seen and every kind: the role its payload names, 0 when
\* it names none that exists
RoleOn ==
    [f \in FootersSeen |->
       [kind \in {"participant", "spectator"} |->
          IF DecodesToRole(Revealed[f], kind)
            THEN TargetRoleId(IdsOfRevealed(Revealed[f]), kind).val
            ELSE 0]]

\* the step is a step of the handler of interaction h, which began before
Stepped(h) ==
    /\ tasks[h].pc # "idle"
    /\ \/ tasks'[h].pc # tasks[h].pc
       \/ tasks'[h].reply # tasks[h].reply
       \/ tasks'[h].on_raise # tasks[h].on_raise
       \/ tasks'[h].locals # tasks[h].locals

\* the step is a step of the handler of a join or watch pressed in the guild
ToggleStep(h) ==
    Stepped(h) /\ tasks[h].handler \in {"join", "watch"} /\ tasks[h].guild = PanelGuild

\* the footer of the panel the join or watch h was pressed on, and its kind
PressedFooter(h) == tasks[h].message

KindOf(h) == tasks[h].locals.role_kind

\* C1: for every x = "participant=<p>|spectator=<s>" with p, s in the bounded
\* id range, reveal(hide(x)) is exactly x.
C1_RoundTrip == codec.pc = "revealed" => codec.out = codec.x

C1_Witness ==
    /\ codec.pc = "revealed"
    /\ codec.x = PayloadText(10, 11)
    /\ codec.out = PayloadText(10, 11)

\* --------------------------------------------- consecutive join actions
\* the step ends the role edit of the join or watch h, which did not raise
EditEnds(h) ==
    /\ tasks[h].pc = "editing"
    /\ tasks'[h].pc = "answering" /\ tasks'[h].on_raise = "except"

\* the interaction before h was the same button, pressed by the same user on
\* the same panel, and was answered "granted"
GrantedBefore(h) ==
    /\ h > 1
    /\ tasks[h - 1].pc = "done" /\ tasks[h - 1].reply = "granted"
    /\ tasks[h - 1].handler = tasks[h].handler
    /\ tasks[h - 1].user = tasks[h].user
    /\ tasks[h - 1].guild = tasks[h].guild
    /\ tasks[h - 1].message = tasks[h].message

\* C2: when the buttons are pressed one after another, on a panel whose
\* carrier decodes to a non-zero id of an existing role, the role edit of a
\* join (watch) by a member without the marker grants it and the
\* confirmation to send is "granted"; the edit of the next action, when it
\* is the same button pressed by the same member, removes the marker and the
\* confirmation is "removed"; after these two actions alone every member's
\* roles are as they were at first.
C2_ConsecutiveToggle ==
    [][\A h \in Handlers :
        (EditEnds(h) /\ RoleOn[PressedFooter(h)][KindOf(h)] # 0) =>
          LET u == tasks[h].user
              role == RoleOn[PressedFooter(h)][KindOf(h)]
          IN /\ tasks'[h].role = role
             /\ role \notin memberRoles[u] =>
                  /\ tasks'[h].reply = "granted"
                  /\ memberRoles'[u] = memberRoles[u] \cup {role}
             /\ GrantedBefore(h) =>
                  /\ tasks'[h].reply = "removed"
                  /\ memberRoles'[u] = memberRoles[u] \ {role}
                  /\ h = 2 => memberRoles' = [v \in Users |-> {}]
      ]_vars

\* member 1 joined twice in a row on the panel of the roles 1 and 2: granted,
\* then removed, and holds no role
C2_Witness ==
    /\ panels = {FooterOf[1, 2]}
    /\ \A h \in {1, 2} : tasks[h].pc = "done" /\ tasks[h].handler = "join"
                          /\ tasks[h].user = 1
    /\ tasks[1].reply = "granted" /\ tasks[1].role = 1
    /\ tasks[2].reply = "removed" /\ tasks[2].role = 1
    /\ memberRoles[1] = {}

\* ------------------------------------------------- the ids of the payload
KindPrefix(kind) == IF kind = "participant" THEN PARTICIPANT_EQ ELSE SPECTATOR_EQ

\* the parts of the revealed payload r that begin with the prefix of the kind
KindParts(r, kind) ==
    LET starts(part) == StartsWith(part, KindPrefix(kind))
    IN IF r = None THEN <<>> ELSE SelectSeq(Split(r, 124), starts)

ValueOf(kind, part) == SubSeq(part, Len(KindPrefix(kind)) + 1, Len(part))

\* the payload gives the kind no id (no part, or a part with nothing after
\* the "="), or gives it the id zero
UnsetOrZero(r, kind) ==
    \A i \in 1..Len(KindParts(r, kind)) :
        LET v == ValueOf(kind, KindParts(r, kind)[i]) IN
          IntRStrip(IntLStrip(v)) = <<>> \/ (ParseInt(v).ok /\ ParseInt(v).val = 0)

\* for every footer seen and every kind: the footer yields no payload, or
\* its id for the kind is zero or unset
NoRoleIdOn ==
    [f \in FootersSeen |->
       [kind \in {"participant", "spectator"} |->
          Revealed[f] = None \/ UnsetOrZero(Revealed[f], kind)]]

\* C6: every step of a join or watch on a carrier that yields no payload, or
\* whose id for the requested kind is zero or unset, changes no member's
\* roles and awaits no role edit; once the message is fetched the handler
\* sends the configuration error (when the fetch raised, the processing
\* error); the answer the user receives is the configuration error, unless
\* a send raised: then the processing error, or none.
C6_ConfigurationError ==
    [][\A h \in Handlers :
        (ToggleStep(h) /\ NoRoleIdOn[PressedFooter(h)][KindOf(h)]) =>
          /\ memberRoles' = memberRoles
          /\ tasks'[h].pc \in {"answering", "done"}
          /\ tasks[h].pc = "fetching" =>
               \/ tasks'[h].reply = "role_id_not_set" /\ tasks'[h].on_raise = "except"
               \/ tasks'[h] = Caught(tasks[h])
          /\ tasks'[h].pc = "done" =>
               tasks'[h].reply \in {"role_id_not_set", "processing_error", "none"}
      ]_vars

\* a join on the panel message without embed was answered with the
\* configuration error, after a watch of the same member was answered so,
\* and the member holds no role
C6_Witness ==
    /\ panels = {<<>>}
    /\ tasks[1].pc = "done" /\ tasks[1].handler = "watch"
    /\ tasks[1].reply = "role_id_not_set"
    /\ tasks[2].pc = "done" /\ tasks[2].handler = "join"
    /\ tasks[2].reply = "role_id_not_set" /\ tasks[2].user = tasks[1].user
    /\ memberRoles = [u \in Users |-> {}]

\* the payload holds exactly one participant id and exactly one spectator id,
\* each a non-negative integer
IsUInt(v) == v # <<>> /\ \A i \in 1..Len(v) : IsDigit(v[i])

WellFormedPayload(r) ==
    \A kind \in {"participant", "spectator"} :
        /\ Len(KindParts(r, kind)) = 1
        /\ IsUInt(ValueOf(kind, KindParts(r, kind)[1]))

\* the footers seen that reveal to a payload which is not of that form
Malformed == {f \in FootersSeen : Revealed[f] # None /\ ~WellFormedPayload(Revealed[f])}

\* C7 (as claimed, its part about the roles): no step of a join or watch on
\* a carrier whose payload is not of that form changes a role.
C7_Original ==
    [][\A h \in Handlers :
        (ToggleStep(h) /\ PressedFooter(h) \in Malformed) => memberRoles' = memberRoles
      ]_vars

\* the id the revealed payload r gives the kind: the number in the last part
\* that begins with the prefix of the kind, 0 when there is none
KindId(r, kind) ==
    LET parts == KindParts(r, kind) IN
      IF parts = <<>> THEN 0
      ELSE LET v == ParseInt(ValueOf(kind, parts[Len(parts)])) IN
             IF v.ok THEN v.val ELSE 0

\* for every footer seen and every kind: that id
KindIdOn ==
    [f \in FootersSeen |->
       [kind \in {"participant", "spectator"} |-> KindId(Revealed[f], kind)]]

OtherKind(kind) == IF kind = "participant" THEN "spectator" ELSE "participant"

\* C11 as claimed: on every panel the command can post, no step of a join
\* changes whether the acting member holds the spectator marker of the
\* panel, and no step of a watch whether they hold its participant marker.
C11_Original ==
    [][\A h \in Handlers : ToggleStep(h) =>
        LET other == KindIdOn[PressedFooter(h)][OtherKind(KindOf(h))] IN
          (other \in memberRoles'[tasks[h].user]) = (other \in memberRoles[tasks[h].user])
      ]_vars

\* ------------------------------------------------ reveal on any text
\* sub occurs in s
HasSub(s, sub) ==
    \E i \in 1..Len(s) :
        i + Len(sub) - 1 <= Len(s) /\ SubSeq(s, i, i + Len(sub) - 1) = sub

MarkerPrefixed(s) == s # <<>> /\ s[1] = _ZWPREFIX

\* the number of bit-marker characters of s
BitCount(s) == Cardinality({i \in 1..Len(s) : s[i] \in {_ZW0, _ZW1}})

\* C12: for a carrier text that does not begin with the marker, reveal gives
\* the text itself when both "participant=" and "spectator=" occur in it,
\* and no payload otherwise (the empty text and a text with one of the two
\* included).
C12_Legacy ==
    (codec.pc = "revealed" /\ ~MarkerPrefixed(codec.carrier)) =>
        codec.out = IF HasSub(codec.carrier, PARTICIPANT_EQ)
                         /\ HasSub(codec.carrier, SPECTATOR_EQ)
                    THEN codec.carrier ELSE None

\* a text with both substrings behind a foreign character came back unchanged
C12_Witness ==
    /\ codec.pc = "revealed"
    /\ codec.carrier = <<120>> \o PayloadText(1, 2)
    /\ codec.out = codec.carrier

\* C13: for a carrier text that begins with the marker and holds a number of
\* bit characters that is no multiple of 8, reveal gives no payload, also
\* when the legacy substrings occur in the text.
C13_BitCount ==
    (codec.pc = "revealed" /\ MarkerPrefixed(codec.carrier)
        /\ BitCount(codec.carrier) % 8 # 0) => codec.out = None

\* the marker, seven bit characters and the legacy text gave no payload
C13_Witness ==
    /\ codec.pc = "revealed"
    /\ codec.carrier = <<_ZWPREFIX, _ZW0, _ZW0, _ZW0, _ZW0, _ZW0, _ZW0, _ZW0>>
                          \o PayloadText(1, 2)
    /\ codec.out = None

\* C14: reveal ends with a text or with no payload for every carrier text;
\* no exception leaves it.
C14_Total ==
    codec.pc = "revealed" =>
        /\ codec.out # Raised
        /\ codec.out = None \/ \A i \in 1..Len(codec.out) : codec.out[i] >= 0

\* bits that regroup into "/w==", whose decoded byte FF is not UTF-8, gave no
\* payload
C14_Witness ==
    /\ codec.pc = "revealed"
    /\ codec.carrier = <<_ZWPREFIX>> \o ZWBits(<<47, 119, 61, 61>>)
    /\ B64Decode(<<47, 119, 61, 61>>) = <<255>>
    /\ Utf8Decode(<<255>>) = Raised
    /\ codec.out = None

\* ------------------------------------------------ history registration
\* the step in which the registration h, its defer ended, takes its
\* snapshots and goes on to the file and the removals
SnapshotStep(h) ==
    /\ tasks[h].pc = "deferred"
    /\ tasks'[h].pc = "removing" \/ tasks'[h].reply = "summary"

\* the step in which the registration h leaves its removals (or finds none
\* to do) and clears the queue
ClearingStep(h) ==
    /\ tasks[h].handler = "register"
    /\ tasks[h].pc \in {"deferred", "removing"}
    /\ tasks'[h].pc = "answering" /\ tasks'[h].reply = "summary"

\* the step appended a record to the file
RowAppended ==
    /\ Len(csv'.rows) > Len(csv.rows)
    /\ csv'.rows[Len(csv'.rows)] # CsvHeader

\* C3 as claimed: the record a registration persists lists exactly the ids
\* the queue of its guild holds when the registration takes its snapshot,
\* and the registration leaves that queue empty.
C3_Original ==
    [][\A h \in Handlers :
        /\ (SnapshotStep(h) /\ RowAppended) =>
            csv'.rows[Len(csv'.rows)].played
                = CsvIds(ByDisplayName(PLAYED_QUEUE[tasks[h].guild]))
        /\ ClearingStep(h) => PLAYED_QUEUE'[tasks[h].guild] = {}
      ]_vars

\* every removal the snapshots r call for
AllRemovals(r) ==
    {<<"participant", r.pr_members[i]>> : i \in 1..Len(r.pr_members)}
        \cup {<<"spectator", r.sp_members[i]>> : i \in 1..Len(r.sp_members)}

\* C4 as claimed: when a registration leaves its removals, the removal has
\* been attempted for every snapshotted participant and spectator member,
\* whatever the outcomes of the removals before.
C4_Original ==
    [][\A h \in Handlers :
        (tasks[h].pc = "removing" /\ ClearingStep(h)) =>
            tasks[h].locals.attempted = AllRemovals(tasks[h].locals)
      ]_vars

\* C5: a registration that passed its checks and whose file calls did not
\* raise has appended the record of its snapshots when it awaits its first
\* removal; every removal it awaits ends, whatever its outcome, in the next
\* removal or in the clearing of the queue of its guild, with which the
\* handler goes on to the send of its summary, which holds the snapshots and
\* the count of the removals that succeeded; the send ends, and the answer
\* is the summary unless the platform refused it.
C5_Completes ==
    /\ \A h \in Handlers :
         (tasks[h].pc = "removing") ~> (tasks[h].pc = "answering" /\ tasks[h].reply = "summary")
    /\ \A h \in Handlers :
         (tasks[h].pc = "answering" /\ tasks[h].reply = "summary") ~> (tasks[h].pc = "done")
    /\ [][\A h \in Handlers :
           /\ (SnapshotStep(h) /\ ~tasks'[h].locals.logged) =>
                /\ RowAppended
                /\ csv'.rows[Len(csv'.rows)] =
                     CsvRow(tasks'[h].locals.pr_members, tasks'[h].locals.sp_members,
                            tasks'[h].locals.played_ids)
           /\ (Stepped(h) /\ tasks[h].pc = "removing") =>
                (tasks'[h].pc = "removing" \/ ClearingStep(h))
           /\ ClearingStep(h) =>
                /\ PLAYED_QUEUE'[tasks[h].guild] = {}
                /\ tasks'[h].on_raise = "error_handler"
                /\ \A kind \in {"participant", "spectator"} :
                     tasks'[h].locals.removed_cnt[kind] <=
                       Cardinality({a \in tasks'[h].locals.attempted : a[1] = kind})
           /\ (Stepped(h) /\ tasks[h].pc = "answering" /\ tasks[h].reply = "summary") =>
                \/ tasks'[h].pc = "done" /\ tasks'[h].reply = "summary"
                \/ tasks'[h] = on_app_command_error(tasks[h])
         ]_vars

\* the only registration, with member 1 holding both roles and queued, has
\* ended: both removals failed (the member still holds the roles), the
\* record is in the file behind the header, the queue is empty, and the
\* summary is the answer
C5_Witness ==
    /\ tasks[1].pc = "done" /\ tasks[1].handler = "register" /\ tasks[1].reply = "summary"
    /\ tasks[2].pc = "idle"
    /\ memberRoles[1] = {1, 2}
    /\ Len(csv.rows) = 2
    /\ csv.rows[2] = CsvRow(<<1>>, <<1>>, <<1>>)
    /\ PLAYED_QUEUE[PanelGuild] = {}

\* C8 as claimed: between the snapshot of the queue and its clearing no
\* attended action changes the queue, so every member's id the clearing
\* removes is in the snapshot.
C8_Original ==
    [][\A h \in Handlers :
        /\ (tasks[h].pc = "removing" /\ tasks'[h].pc = "removing") =>
            PLAYED_QUEUE'[tasks[h].guild] = PLAYED_QUEUE[tasks[h].guild]
        /\ (tasks[h].pc = "removing" /\ ClearingStep(h)) =>
            \A u \in PLAYED_QUEUE[tasks[h].guild] \cap GuildMembers(tasks[h].guild) :
                \E i \in 1..Len(tasks[h].locals.played_ids) :
                    tasks[h].locals.played_ids[i] = u
      ]_vars

\* ------------------------------------------------- the attended button
\* the number of attended actions of user u in guild g so far
Clicks(g, u) ==
    Cardinality({h \in DOMAIN tasks :
                   tasks[h].handler = "played" /\ tasks[h].guild = g /\ tasks[h].user = u})

\* C9: however the handlers of the attended actions overlap, with no
\* history registration in between, the queue of a guild holds exactly the
\* users who performed an odd number of attended actions there.
C9_NoLostToggle ==
    \A g \in Guilds : PLAYED_QUEUE[g] = {u \in Users : Clicks(g, u) % 2 = 1}

\* user 1 toggled twice around a toggle of user 2 in the same guild, and the
\* three handlers are all suspended in the send of their answers
C9_Witness ==
    /\ \A h \in 1..3 : tasks[h].pc = "answering" /\ tasks[h].guild = 1
    /\ tasks[1].user = 1 /\ tasks[2].user = 2 /\ tasks[3].user = 1
    /\ PLAYED_QUEUE[1] = {2}

\* the step in which user u performs the attended action h in guild g
AttendedStep(h, g, u) ==
    /\ tasks[h].pc = "idle"
    /\ tasks'[h].handler = "played" /\ tasks'[h].guild = g /\ tasks'[h].user = u

\* C10: the step in which u performs an attended action in g adds u to g's
\* queue when absent and removes u when present (and chooses the answer to
\* send accordingly), leaves every other user's entry of that queue and the
\* queues of the other guilds as they were, awaits no fetch of a message and
\* changes no role membership; the later steps of its handler, the send of
\* the answer, change neither a queue nor a role.
C10_AttendedFrame ==
    [][\A h \in DOMAIN tasks :
        /\ \A g \in Guilds, u \in Users :
             AttendedStep(h, g, u) =>
               /\ (u \in PLAYED_QUEUE'[g]) = (u \notin PLAYED_QUEUE[g])
               /\ \A v \in Users \ {u} : (v \in PLAYED_QUEUE'[g]) = (v \in PLAYED_QUEUE[g])
               /\ \A other \in Guilds \ {g} : PLAYED_QUEUE'[other] = PLAYED_QUEUE[other]
               /\ tasks'[h].pc = "answering"
               /\ tasks'[h].reply = IF u \in PLAYED_QUEUE[g] THEN "played_removed"
                                    ELSE "played_added"
               /\ memberRoles' = memberRoles /\ panels' = panels
        /\ (Stepped(h) /\ tasks[h].handler = "played") =>
               /\ PLAYED_QUEUE' = PLAYED_QUEUE
               /\ memberRoles' = memberRoles /\ panels' = panels
               /\ tasks'[h].pc = "done"
               /\ tasks'[h].reply \in {tasks[h].reply, "none"}
      ]_vars

\* user 1 was answered that they left the queue of guild 1, after user 2
\* entered the queue and was answered
C10_Witness ==
    /\ tasks[1].pc = "done" /\ tasks[1].handler = "played" /\ tasks[1].user = 1
    /\ tasks[1].guild = 1 /\ tasks[1].reply = "played_added"
    /\ tasks[2].pc = "done" /\ tasks[2].user = 2 /\ tasks[2].guild = 1
    /\ tasks[3].pc = "done" /\ tasks[3].user = 1 /\ tasks[3].guild = 1
    /\ tasks[3].reply = "played_removed"
    /\ PLAYED_QUEUE[1] = {2}

\* ---------------------------------------------------------- text layout
\* the budget w fits k characters of the text per line: each character is
\* narrower than the budget, every run of at most k characters fits and no
\* run of k + 1 characters does
FitsPerLine(text, w, k) ==
    /\ \A i \in 1..Len(text) : text_w(<<text[i]>>) < w
    /\ \A i \in 1..Len(text), j \in 1..Len(text) :
         /\ (i <= j /\ j - i + 1 <= k) => text_w(SubSeq(text, i, j)) <= w
         /\ j - i + 1 = k + 1 => text_w(SubSeq(text, i, j)) > w

RECURSIVE Joined(_)
Joined(lines) == IF lines = <<>> THEN <<>> ELSE Head(lines) \o Joined(Tail(lines))

\* ceil(n / k)
CeilDiv(n, k) == (n + k - 1) \div k

\* C15: a text of N characters, each narrower than the budget, wrapped into a
\* budget that fits k characters per line, gives exactly ceil(N/k) lines that
\* joined in order are the text, each within the budget, the last not empty.
C15_Wrap ==
    render.pc = "drawn" =>
      \A k \in 1..(MaxText + 1) :
        FitsPerLine(render.text, render.max_width, k) =>
          /\ Len(render.lines) = CeilDiv(Len(render.text), k)
          /\ Joined(render.lines) = render.text
          /\ \A n \in 1..Len(render.lines) : text_w(render.lines[n]) <= render.max_width
          /\ render.lines # <<>> => render.lines[Len(render.lines)] # <<>>

\* five narrow characters in a budget of two per line: three lines, the last
\* of one character
C15_Witness ==
    /\ render.pc = "drawn"
    /\ render.text = <<97, 97, 97, 97, 97>>
    /\ render.max_width = 2
    /\ FitsPerLine(render.text, render.max_width, 2)
    /\ render.lines = <<(<<97, 97>>), (<<97, 97>>), (<<97>>)>>

\* -------------------------------------------------------- the panel rows
\* a non-empty string of decimal digits
IsDecimalString(p) == p # <<>> /\ \A i \in 1..Len(p) : IsDigit(p[i])

\* C16: the party-size value is drawn with the unit suffix appended exactly
\* when it is a non-empty string of decimal digits, and verbatim otherwise.
C16_Original ==
    render.pc = "rendered" =>
      render.players_row = IF IsDecimalString(render.players)
                             THEN render.players \o UNIT_SUFFIX
                             ELSE render.players

\* ------------------------------------------------- the rendering pipeline
\* the fetch of the background, or of the thumbnail, was tried and failed
FailedBg == render.bg_url # <<>> /\ render.bg_response = Raised
FailedCorner == render.corner_image_url # <<>> /\ render.corner_response = Raised

\* the steps after the fetch of the background, in the order of the pipeline
LaterSteps ==
    <<"accent_bar", "title", "row_date", "row_players", "row_duration", "note_label",
      "note", "footer">>

IsLaterStep(x) == \E i \in 1..Len(LaterSteps) : LaterSteps[i] = x

Ran(step) == \E i \in 1..Len(render.steps) : render.steps[i] = step

\* C19: a call in which the fetch of the background or of the thumbnail
\* failed still produces the panel, without the failed image, and runs the
\* accent bar, the title, the rows, the note and the footer in this order.
C19_FetchFailure ==
    (render.pc # "make_panel" /\ (FailedBg \/ FailedCorner)) =>
      /\ render.pc = "rendered"
      /\ render.steps # <<>> /\ render.steps[Len(render.steps)] = "png"
      /\ FailedBg => ~Ran("background")
      /\ FailedCorner => ~Ran("thumbnail")
      /\ SelectSeq(render.steps, IsLaterStep) = LaterSteps

\* the background failed and the thumbnail arrived: the panel has the
\* thumbnail and no background
C19_Witness ==
    /\ render.pc = "rendered"
    /\ FailedBg /\ ~FailedCorner
    /\ Ran("thumbnail") /\ ~Ran("background") /\ Ran("png")

\* ------------------------------------------------------ the missing role
\* every participant and spectator part of the payload r holds an integer
AllIdsDecode(r) ==
    \A kind \in {"participant", "spectator"} :
      \A i \in 1..Len(KindParts(r, kind)) :
        ParseInt(ValueOf(kind, KindParts(r, kind)[i])).ok

\* the payload decodes, and its id for the kind is not zero and names no
\* role of the guild
NamesNoRole(r, kind) ==
    /\ r # None /\ AllIdsDecode(r)
    /\ KindId(r, kind) # 0
    /\ KindId(r, kind) \notin GuildRoleIds(PanelGuild)

\* for every footer seen and every kind: whether its payload names no role
NamesNoRoleOn ==
    [f \in FootersSeen |->
       [kind \in {"participant", "spectator"} |-> NamesNoRole(Revealed[f], kind)]]

\* C17: every step of a join or watch whose decoded id for the requested
\* kind is not zero and names no existing role of the guild changes no
\* member's roles and awaits no role edit; once the message is fetched the
\* handler sends the not-found error (when the fetch raised, the processing
\* error); the answer the user receives is the not-found error, unless a
\* send raised: then the processing error, or none.
C17_NotFound ==
    [][\A h \in Handlers :
        (ToggleStep(h) /\ NamesNoRoleOn[PressedFooter(h)][KindOf(h)]) =>
          /\ memberRoles' = memberRoles
          /\ tasks'[h].pc \in {"answering", "done"}
          /\ tasks[h].pc = "fetching" =>
               \/ tasks'[h].reply = "role_not_found" /\ tasks'[h].on_raise = "except"
               \/ tasks'[h] = Caught(tasks[h])
          /\ tasks'[h].pc = "done" =>
               tasks'[h].reply \in {"role_not_found", "processing_error", "none"}
      ]_vars

\* a join on the panel "participant=3|spectator=2" in a guild without a
\* role 3, by a member who holds role 2 after a watch, was answered not-found
C17_Witness ==
    /\ panels = {FooterOf[3, 2]}
    /\ tasks[1].pc = "done" /\ tasks[1].handler = "watch" /\ tasks[1].reply = "granted"
    /\ tasks[2].pc = "done" /\ tasks[2].handler = "join"
    /\ tasks[2].reply = "role_not_found" /\ tasks[2].user = tasks[1].user
    /\ memberRoles[tasks[2].user] = {2}

\* ------------------------------------------------ the queues of the guilds
\* the step is a step of an attended action in guild g
AttendedIn(h, g) ==
    \/ tasks[h].pc = "idle" /\ tasks'[h].handler = "played" /\ tasks'[h].guild = g
    \/ Stepped(h) /\ tasks[h].handler = "played" /\ tasks[h].guild = g

\* the step is the one of an attended action in guild g that changes the set
PressedIn(h, g) ==
    tasks[h].pc = "idle" /\ tasks'[h].handler = "played" /\ tasks'[h].guild = g

\* the step is a step of a history registration in guild g
RegistrationIn(h, g) ==
    \/ tasks[h].pc = "idle" /\ tasks'[h].handler = "register" /\ tasks'[h].guild = g
    \/ Stepped(h) /\ tasks[h].handler = "register" /\ tasks[h].guild = g

\* C18: no step of an attended action or of a history registration in guild
\* g changes the queue of another guild, and the queue of g changes only in
\* the step of an attended action in g that toggles the user and in the
\* clearing by a registration in g.
C18_QueueFrame ==
    [][\A h \in Handlers, g \in Guilds :
        /\ (AttendedIn(h, g) \/ RegistrationIn(h, g)) =>
             \A other \in Guilds \ {g} : PLAYED_QUEUE'[other] = PLAYED_QUEUE[other]
        /\ PLAYED_QUEUE'[g] # PLAYED_QUEUE[g] =>
             \E k \in Handlers :
                 PressedIn(k, g) \/ (ClearingStep(k) /\ tasks[k].guild = g)
      ]_vars

\* a registration in the guild with the highest id took a snapshot of a
\* queue that was not empty and cleared it, while the queue of the panel's
\* guild holds the user it held and the owner, after an attended action there
C18_Witness ==
    \E h, k \in Handlers :
        /\ tasks[h].handler = "register" /\ tasks[h].guild = MaxGuild
        /\ tasks[h].pc = "done" /\ tasks[h].reply = "summary"
        /\ csv.rows = <<CsvHeader, CsvRow(<<>>, <<>>, <<MaxUser>>)>>
        /\ tasks[k].handler = "played" /\ tasks[k].guild = PanelGuild
        /\ tasks[k].user = 1
        /\ PLAYED_QUEUE[MaxGuild] = {}
        /\ PLAYED_QUEUE[PanelGuild] = {1, MaxUser}

\* ------------------------------------------------------- the font resolver
\* the first fixed candidate that exists, 0 when none exists
FirstLocal(env) ==
    IF \A p \in FixedCandidates : env.fixed[p] = "missing" THEN 0
    ELSE CHOOSE p \in FixedCandidates :
           /\ env.fixed[p] # "missing"
           /\ \A q \in FixedCandidates : q < p => env.fixed[q] = "missing"

\* the request for FONT_URL, or the cached file of an earlier request, gives
\* a font
UrlGivesFont(env) ==
    /\ env.url_set
    /\ \/ env.cache = "font"
       \/ env.cache = "missing" /\ env.download = "font"

\* C20 as claimed: get_font returns a font handle, and it is the font of the
\* first step that does not fail: the configured file; when that is unset,
\* missing or malformed, the local candidates; when these fail, the remote
\* URL; when that fails, the built-in font.
C20_Original ==
    render.pc = "got_font" =>
      LET env == render.env
          local == FirstLocal(env)
          truetype_of(p) == [kind |-> "truetype", path |-> p, size |-> render.size]
      IN /\ render.font.kind \in {"truetype", "default"}
         /\ env.configured = "font" => render.font = truetype_of(ConfiguredPath)
         /\ (env.configured # "font" /\ local # 0 /\ env.fixed[local] = "font") =>
              render.font = truetype_of(local)
         /\ (env.configured # "font"
             /\ (\A p \in FixedCandidates : env.fixed[p] # "font")
             /\ UrlGivesFont(env)) =>
              render.font = truetype_of(CachePath)
         /\ (env.configured # "font"
             /\ (\A p \in FixedCandidates : env.fixed[p] # "font")
             /\ ~UrlGivesFont(env)) =>
              render.font = load_default

\* ------------------------------------------------------ the stroked text
\* C21: draw_text draws the outer pass first, a stroke of the outline width
\* in the outline colour, and only when the outline width is greater than
\* zero; then exactly one more draw follows at the same position, a stroke of
\* the inline width in the fill colour when the inline width is greater than
\* zero, an unstroked draw when it is zero.
C21_DrawOrder ==
    render.pc = "text_drawn" =>
      LET d == render.draws
          n == Len(d)
      IN /\ n = (IF render.outline_w > 0 THEN 2 ELSE 1)
         /\ \A i \in 1..n : d[i].xy = render.xy /\ d[i].fill = render.fill
         /\ render.outline_w > 0 =>
              (d[1].stroke_width = render.outline_w /\ d[1].stroke_fill = render.outline)
         /\ render.inline_w > 0 =>
              (d[n].stroke_width = render.inline_w /\ d[n].stroke_fill = render.fill)
         /\ render.inline_w = 0 =>
              (d[n].stroke_width = 0 /\ d[n].stroke_fill = "none")

\* a black outline of width 2 under a white text of inline width 1: two
\* draws, the outline first
C21_Witness ==
    /\ render.pc = "text_drawn"
    /\ render.fill = "white" /\ render.outline = "black"
    /\ render.outline_w = 2 /\ render.inline_w = 1
    /\ Len(render.draws) = 2
    /\ render.draws[1].stroke_fill = "black" /\ render.draws[2].stroke_fill = "white"

\* -------------------------------------------------- the published panels
\* the participant id or the spectator id of the call t of the command
\* resolves to zero
CreateWithoutRole(t) ==
    /\ t.handler = "create"
    /\ IdsUnset(PanelRoleId(t.locals.participant_role, DEFAULT_PARTICIPANT_ROLE_ID),
                PanelRoleId(t.locals.spectator_role, DEFAULT_SPECTATOR_ROLE_ID))

\* the carrier reveals to "participant=<p>|spectator=<s>" with p, s not zero
CarriesBothRoles(carrier) ==
    \E r \in {_reveal_payload(carrier)} :
        \E p \in 1..MaxRoleId, s \in 1..MaxRoleId : r = PayloadText(p, s)

\* the footers seen of which that holds
BothRoles == {f \in FootersSeen : CarriesBothRoles(f)}

\* C22: no step of a call of the command in which the participant or the
\* spectator id resolves to zero renders an image or posts a panel: its
\* defer ended, the call sends that the ids are unset (when the defer
\* raised, the error handler answers), and it never awaits the send of a
\* panel; no panel is published at first, and the carrier of every panel
\* that is published reveals to a payload with both ids not zero.
C22_NoPanelWithoutRole ==
    /\ [][\A h \in Handlers :
            (Stepped(h) /\ CreateWithoutRole(tasks[h])) =>
               /\ render' = render /\ panels' = panels
               /\ tasks'[h].pc \in {"answering", "done"}
               /\ tasks[h].pc = "deferring" =>
                    \/ tasks'[h].reply = "role_ids_unset"
                         /\ tasks'[h].on_raise = "error_handler"
                    \/ tasks'[h] = on_app_command_error(tasks[h])
               /\ tasks'[h].pc = "done" =>
                    tasks'[h].reply \in {"role_ids_unset", "error", "none"}
         ]_vars
    /\ panels = {}
    /\ [][panels' \ panels \subseteq BothRoles]_vars

\* the command was called with an id that resolves to zero (no spectator
\* role while SPECTATOR_ROLE_ID is 0): it answered that the ids are unset,
\* rendered nothing and posted nothing
C22_Witness ==
    \E h \in Handlers :
        /\ tasks[h].pc = "done" /\ tasks[h].handler = "create"
        /\ tasks[h].reply = "role_ids_unset"
        /\ render = [pc |-> "idle"]
        /\ panels = {}

\* ------------------------------------------------ overlapping join actions
\* the first two interactions are the only ones, both are joins of user u on
\* the panel, and both have ended with a confirmation
BothJoinsDone(u) ==
    /\ \A h \in Handlers : tasks[h].pc = IF h <= 2 THEN "done" ELSE "idle"
    /\ \A h \in {1, 2} :
         /\ tasks[h].handler = "join" /\ tasks[h].user = u /\ tasks[h].guild = PanelGuild
         /\ tasks[h].reply \in {"granted", "removed"}

\* C23 as claimed: when two join actions of the same user on the panel have
\* both completed, overlapping or not, and nothing else was pressed, the
\* user's participant marker is as it was at first (not held) and the two
\* confirmations are one "granted" and one "removed".
C23_Original ==
    \A u \in Users : BothJoinsDone(u) =>
        /\ KindIdOn[tasks[1].message]["participant"] \notin memberRoles[u]
        /\ {tasks[1].reply, tasks[2].reply} = {"granted", "removed"}

\* ------------------------------------------------ rejected registrations
\* user u is neither administrator nor holder of the allowed role in guild g
NotPermitted(g, u) ==
    /\ u \notin Admins
    /\ ALLOWED_ROLE_ID = 0 \/ ALLOWED_ROLE_ID \notin RolesIn(g, u)

\* the role parameter was not given and the configured id is zero or names
\* no role of guild g
Unresolved(g, role_param, env_id) ==
    role_param = NoRole /\ (env_id = 0 \/ env_id \notin GuildRoleIds(g))

\* the registration t cannot resolve its participant or its spectator role
RolesUnresolved(t) ==
    \/ Unresolved(t.guild, t.locals.participant_role, DEFAULT_PARTICIPANT_ROLE_ID)
    \/ Unresolved(t.guild, t.locals.spectator_role, DEFAULT_SPECTATOR_ROLE_ID)

\* the queues, the file and the roles of the members stay as they are
NoEffect == PLAYED_QUEUE' = PLAYED_QUEUE /\ csv' = csv /\ memberRoles' = memberRoles

\* C24: the call of a history registration by a caller who is neither
\* administrator nor holder of the allowed role goes to the send of the
\* refusal and never to the defer; a registration whose participant or
\* spectator role cannot be resolved goes from its defer to the send of
\* not-found (when the defer raised, the error handler answers); and no step
\* of either, whatever registrations and attended actions overlap with it,
\* changes a queue, writes to the file or removes a role.  The answer is the
\* refusal or not-found unless a send raised: then the error handler's, or
\* none.
C24_RejectedNoEffect ==
    [][\A h \in Handlers :
        /\ (tasks[h].pc = "idle" /\ tasks'[h].handler = "register") =>
             /\ NoEffect
             /\ IF NotPermitted(tasks'[h].guild, tasks'[h].user)
                  THEN tasks'[h].pc = "answering" /\ tasks'[h].reply = "no_permission"
                  ELSE tasks'[h].pc = "deferred"
        /\ (Stepped(h) /\ tasks[h].handler = "register"
              /\ (NotPermitted(tasks[h].guild, tasks[h].user) \/ RolesUnresolved(tasks[h]))) =>
             /\ NoEffect
             /\ tasks'[h].pc \in {"answering", "done"}
             /\ tasks[h].pc = "deferred" =>
                  \/ tasks'[h].reply = "roles_not_found"
                       /\ tasks'[h].on_raise = "error_handler"
                  \/ tasks'[h] = on_app_command_error(tasks[h])
             /\ tasks'[h].pc = "done" =>
                  tasks'[h].reply \in {"no_permission", "roles_not_found", "error", "none"}
      ]_vars

\* a registration without a spectator role was answered not-found and one of
\* a member without permission was refused, while the queue of the guild
\* holds a user, a member holds the participant role and the file is not
\* written
C24_Witness ==
    \E h, k \in Handlers :
        /\ tasks[h].pc = "done" /\ tasks[h].handler = "register"
        /\ tasks[h].reply = "roles_not_found" /\ tasks[h].guild = PanelGuild
        /\ tasks[k].pc = "done" /\ tasks[k].handler = "register"
        /\ tasks[k].reply = "no_permission"
        /\ PLAYED_QUEUE[PanelGuild] = {MaxUser}
        /\ \E u \in Users : DEFAULT_PARTICIPANT_ROLE_ID \in memberRoles[u]
        /\ csv = [exists |-> FALSE, rows |-> <<>>]

====
